---- MODULE Spec2Model ----
(***************************************************************************)
(* A model of the AppleScript bridge of work_helper:                       *)
(*   - utils/applescript.py: value marshaling (format_applescript_value,   *)
(*     parse_value, parse_applescript_list, parse_applescript_record) and  *)
(*     run_applescript_async;                                              *)
(*   - utils/calendar.py: CalendarModule.check_calendar_access and         *)
(*     CalendarModule.create_event;                                        *)
(*   - apple_mcp.py: the create_event tool;                                *)
(*   - the event script of utils/calendar.py as osascript runs it.         *)
(*                                                                         *)
(* A Python str is a sequence of one-character strings.  A Python value is *)
(* a tagged record (see "Python values").                                  *)
(***************************************************************************)
EXTENDS Integers, Sequences, FiniteSets, TLC

VARIABLES
    mval,      \* marshaling: the native value handed to format_applescript_value, or Written(items) for a printed text
    mtext,     \* marshaling: the AppleScript text (the rendering of mval, or a text as osascript printed it)
    mout,      \* marshaling: what the parser returned for mtext
    mpc,       \* marshaling: "value", "formatted", "text", "parsed_value", "parsed_list", "parsed_record"
    op,        \* calendar: the operation invoked: "none", "create", "tool", "check"
    pc,        \* calendar: "idle", "launching", "running", "done", "raised"
    args,      \* calendar: the arguments of the create_event call
    clock,     \* calendar: [today, local_off]: the local date of now (in days) and the local zone offset (minutes)
    script,    \* calendar: the script handed to osascript
    proc,      \* calendar: what the osascript subprocess did
    exc,       \* calendar: the exception that left the operation, if any
    result,    \* calendar: what the operation returned
    cals,      \* script run: the calendars of the Calendar application, in its order
    osa,       \* script run: where osascript stands in the event script
    calls,     \* concurrency: the create_event calls in progress on one CalendarModule
    files,     \* file system: the directory tree and the FileSystemManager operation on it
    slack,     \* Slack: the thread's pages and the run of get_message_replies
    jira       \* Jira: the vault files and the run of main()

mvars == <<mval, mtext, mout, mpc>>
cvars == <<op, pc, args, clock, script, proc, exc, result>>
svars == <<cals, osa>>
ovars == <<calls, files, slack, jira>>
vars ==
    <<mval, mtext, mout, mpc, op, pc, args, clock, script, proc, exc, result, cals, osa,
      calls, files, slack, jira>>

----------------------------------------------------------------------------
(* Python str operations *)

Whitespace == {" ", "\t", "\n", "\r"}

RECURSIVE lstrip(_)
lstrip(s) ==
    IF s # <<>> /\ Head(s) \in Whitespace THEN lstrip(Tail(s)) ELSE s

RECURSIVE rstrip(_)
rstrip(s) ==
    IF s # <<>> /\ s[Len(s)] \in Whitespace
    THEN rstrip(SubSeq(s, 1, Len(s) - 1))
    ELSE s

strip(s) == rstrip(lstrip(s))

startswith(s, p) == Len(s) >= Len(p) /\ SubSeq(s, 1, Len(p)) = p

endswith(s, p) == Len(s) >= Len(p) /\ SubSeq(s, Len(s) - Len(p) + 1, Len(s)) = p

\* s[1:-1]
inner(s) == SubSeq(s, 2, Len(s) - 1)

contains_char(s, c) == \E i \in 1..Len(s) : s[i] = c

\* str.replace(old, new): every non-overlapping occurrence, leftmost first
RECURSIVE replace(_, _, _)
replace(s, old, new) ==
    IF Len(s) < Len(old) THEN s
    ELSE IF startswith(s, old)
         THEN new \o replace(SubSeq(s, Len(old) + 1, Len(s)), old, new)
         ELSE <<Head(s)>> \o replace(Tail(s), old, new)

UpperLetters ==
    <<"A", "B", "C", "D", "E", "F", "G", "H", "I", "J", "K", "L", "M",
      "N", "O", "P", "Q", "R", "S", "T", "U", "V", "W", "X", "Y", "Z">>

LowerLetters ==
    <<"a", "b", "c", "d", "e", "f", "g", "h", "i", "j", "k", "l", "m",
      "n", "o", "p", "q", "r", "s", "t", "u", "v", "w", "x", "y", "z">>

lower_char(c) ==
    IF \E i \in 1..Len(UpperLetters) : UpperLetters[i] = c
    THEN LowerLetters[CHOOSE i \in 1..Len(UpperLetters) : UpperLetters[i] = c]
    ELSE c

lower(s) == [i \in 1..Len(s) |-> lower_char(s[i])]

RECURSIVE join(_, _)
join(sep, items) ==
    IF items = <<>> THEN <<>>
    ELSE IF Len(items) = 1 THEN items[1]
    ELSE items[1] \o sep \o join(sep, Tail(items))

----------------------------------------------------------------------------
(* Python numbers and their text *)

Digits == <<"0", "1", "2", "3", "4", "5", "6", "7", "8", "9">>

is_digit(c) == \E i \in 1..Len(Digits) : Digits[i] = c

digit_val(c) == (CHOOSE i \in 1..Len(Digits) : Digits[i] = c) - 1

all_digits(s) == \A i \in 1..Len(s) : is_digit(s[i])

RECURSIVE digits_val(_)
digits_val(s) ==
    IF s = <<>> THEN 0
    ELSE digits_val(SubSeq(s, 1, Len(s) - 1)) * Len(Digits) + digit_val(s[Len(s)])

RECURSIVE pow10(_)
pow10(k) == IF k = 0 THEN 1 ELSE Len(Digits) * pow10(k - 1)

RECURSIVE nat_str(_)
nat_str(n) ==
    IF n < Len(Digits) THEN <<Digits[n + 1]>>
    ELSE nat_str(n \div Len(Digits)) \o <<Digits[(n % Len(Digits)) + 1]>>

\* str(int)
int_str(n) == IF n < 0 THEN <<"-">> \o nat_str(-n) ELSE nat_str(n)

RECURSIVE zero_pad(_, _)
zero_pad(s, width) == IF Len(s) >= width THEN s ELSE zero_pad(<<"0">> \o s, width)

\* A float is num / 10^scale, with num % 10 # 0 unless scale = 0 (short decimals,
\* which repr() prints positionally and float() reads back exactly).
RECURSIVE float_norm(_, _)
float_norm(num, scale) ==
    IF scale > 0 /\ num % Len(Digits) = 0
    THEN float_norm(num \div Len(Digits), scale - 1)
    ELSE [num |-> num, scale |-> scale]

\* str(float)
float_str(num, scale) ==
    LET mag == IF num < 0 THEN -num ELSE num
        whole == mag \div pow10(scale)
        frac == mag % pow10(scale)
    IN  (IF num < 0 THEN <<"-">> ELSE <<>>)
        \o nat_str(whole) \o <<".">>
        \o (IF scale = 0 THEN <<"0">> ELSE zero_pad(nat_str(frac), scale))

unsigned(s) == IF s # <<>> /\ s[1] \in {"+", "-"} THEN Tail(s) ELSE s

is_negative(s) == s # <<>> /\ s[1] = "-"

\* int(value); ok = FALSE stands for ValueError.  Without "_" in the text the
\* accepted form is an optional sign and one or more digits.
py_int(s) ==
    LET u == unsigned(s)
    IN  IF u # <<>> /\ all_digits(u)
        THEN [ok |-> TRUE, num |-> IF is_negative(s) THEN -digits_val(u) ELSE digits_val(u)]
        ELSE [ok |-> FALSE, num |-> 0]

\* float(value) for text holding a ".": an optional sign, digits, ".", digits,
\* with a digit on at least one side (no exponent, inf or nan in the texts used).
py_float(s) ==
    LET u == unsigned(s)
        dot == IF contains_char(u, ".")
               THEN CHOOSE i \in 1..Len(u) : u[i] = "." /\ \A j \in 1..(i - 1) : u[j] # "."
               ELSE 0
        w == SubSeq(u, 1, dot - 1)
        f == SubSeq(u, dot + 1, Len(u))
        mag == digits_val(w) * pow10(Len(f)) + digits_val(f)
        n == float_norm(mag, Len(f))
    IN  IF dot > 0 /\ all_digits(w) /\ all_digits(f) /\ Len(w) + Len(f) > 0
        THEN [ok |-> TRUE, num |-> IF is_negative(s) THEN -(n.num) ELSE n.num, scale |-> n.scale]
        ELSE [ok |-> FALSE, num |-> 0, scale |-> 0]

----------------------------------------------------------------------------
(* Python values *)

VNone == [t |-> "none"]
VBool(b) == [t |-> "bool", b |-> b]
VInt(i) == [t |-> "int", i |-> i]
VFloat(num, scale) == [t |-> "float", num |-> num, scale |-> scale]
VStr(s) == [t |-> "str", s |-> s]
VList(xs) == [t |-> "list", xs |-> xs]
\* a dict: its items in insertion order, each [k |-> key text, v |-> value]
VDict(kv) == [t |-> "dict", kv |-> kv]

\* isinstance(value, cls); bool is a subclass of int
isinstance(v, cls) ==
    CASE cls = "bool" -> v.t = "bool"
      [] cls = "number" -> v.t \in {"bool", "int", "float"}
      [] cls = "list" -> v.t = "list"
      [] cls = "dict" -> v.t = "dict"

QUOTE == "\""
BACKSLASH == "\\"
MISSING_VALUE == <<"m", "i", "s", "s", "i", "n", "g", " ", "v", "a", "l", "u", "e">>
TRUE_TEXT == <<"t", "r", "u", "e">>
FALSE_TEXT == <<"f", "a", "l", "s", "e">>

\* str(value) of a value that is not None
py_str(v) ==
    CASE v.t = "bool" -> IF v.b THEN <<"T", "r", "u", "e">> ELSE <<"F", "a", "l", "s", "e">>
      [] v.t = "int" -> int_str(v.i)
      [] v.t = "float" -> float_str(v.num, v.scale)
      [] v.t = "str" -> v.s

----------------------------------------------------------------------------
(* utils/applescript.py: formatting *)

escape_string(s) ==
    replace(replace(s, <<QUOTE>>, <<BACKSLASH, QUOTE>>), <<"'">>, <<BACKSLASH, "'">>)

\* faulty variant: the number test comes before the bool test, so that True,
\* an int for isinstance, is rendered by str()
RECURSIVE format_number_before_bool(_)
format_number_before_bool(value) ==
    IF value = VNone THEN MISSING_VALUE
    ELSE IF isinstance(value, "number") THEN py_str(value)
    ELSE IF isinstance(value, "bool") THEN lower(py_str(value))
    ELSE IF isinstance(value, "list") THEN
        <<"{">>
        \o join(<<",", " ">>,
                [i \in 1..Len(value.xs) |-> format_number_before_bool(value.xs[i])])
        \o <<"}">>
    ELSE IF isinstance(value, "dict") THEN
        <<"{">>
        \o join(<<",", " ">>,
                [i \in 1..Len(value.kv) |->
                    value.kv[i].k \o <<":">> \o format_number_before_bool(value.kv[i].v)])
        \o <<"}">>
    ELSE <<QUOTE>> \o escape_string(py_str(value)) \o <<QUOTE>>

RECURSIVE format_applescript_value(_)
format_applescript_value(value) ==
    IF value = VNone THEN MISSING_VALUE
    ELSE IF isinstance(value, "bool") THEN lower(py_str(value))
    ELSE IF isinstance(value, "number") THEN py_str(value)
    ELSE IF isinstance(value, "list") THEN
        <<"{">>
        \o join(<<",", " ">>,
                [i \in 1..Len(value.xs) |-> format_applescript_value(value.xs[i])])
        \o <<"}">>
    ELSE IF isinstance(value, "dict") THEN
        <<"{">>
        \o join(<<",", " ">>,
                [i \in 1..Len(value.kv) |->
                    value.kv[i].k \o <<":">> \o format_applescript_value(value.kv[i].v)])
        \o <<"}">>
    ELSE <<QUOTE>> \o escape_string(py_str(value)) \o <<QUOTE>>

----------------------------------------------------------------------------
(* utils/applescript.py: parsing *)

\* the "remove leading/trailing braces if present" step of both parsers
strip_braces(output) ==
    LET o == strip(output)
    IN  IF startswith(o, <<"{">>) /\ endswith(o, <<"}">>) THEN inner(o) ELSE o

\* a double quote toggles the quote state unless the text gathered so far
\* ends with a backslash
toggles_quote(char, current) ==
    char = QUOTE /\ (current = <<>> \/ current[Len(current)] # BACKSLASH)

\* the splitting loop of parse_applescript_list, from character i on
RECURSIVE split_items(_, _, _, _, _)
split_items(output, i, res, current, in_quotes) ==
    IF i > Len(output)
    THEN IF current # <<>> THEN Append(res, strip(current)) ELSE res
    ELSE IF toggles_quote(output[i], current)
         THEN split_items(output, i + 1, res, Append(current, output[i]), ~in_quotes)
    ELSE IF output[i] = "," /\ ~in_quotes
         THEN split_items(output, i + 1, Append(res, strip(current)), <<>>, in_quotes)
    ELSE split_items(output, i + 1, res, Append(current, output[i]), in_quotes)

\* the "clean up any quotes" step for one item
clean_item(item) ==
    LET it == strip(item)
    IN  IF startswith(it, <<QUOTE>>) /\ endswith(it, <<QUOTE>>) THEN inner(it) ELSE it

\* returns a Python list of str: a sequence of texts
parse_applescript_list(output) ==
    IF output = <<>> THEN <<>>
    ELSE LET items == split_items(strip_braces(output), 1, <<>>, <<>>, FALSE)
         IN  [i \in 1..Len(items) |-> clean_item(items[i])]

\* faulty variant: the quotes are removed and the text between them goes on
\* through the later cases
parse_value_reparses_unquoted(text) ==
    LET stripped == strip(text)
        value == IF startswith(stripped, <<QUOTE>>) /\ endswith(stripped, <<QUOTE>>)
                 THEN inner(stripped)
                 ELSE stripped
    IN  IF contains_char(value, ".") /\ py_float(value).ok
        THEN VFloat(py_float(value).num, py_float(value).scale)
        ELSE IF ~contains_char(value, ".") /\ py_int(value).ok
        THEN VInt(py_int(value).num)
        ELSE IF lower(value) = TRUE_TEXT THEN VBool(TRUE)
        ELSE IF lower(value) = FALSE_TEXT THEN VBool(FALSE)
        ELSE IF lower(value) = MISSING_VALUE THEN VNone
        ELSE IF startswith(value, <<"{">>) /\ endswith(value, <<"}">>)
        THEN VList([i \in 1..Len(parse_applescript_list(value)) |->
                        VStr(parse_applescript_list(value)[i])])
        ELSE VStr(value)

\* faulty variant: the ValueError of float() and int() is not caught
parse_value_without_except(text) ==
    LET value == strip(text)
    IN  IF startswith(value, <<QUOTE>>) /\ endswith(value, <<QUOTE>>)
        THEN VStr(inner(value))
        ELSE IF contains_char(value, ".")
        THEN IF py_float(value).ok
             THEN VFloat(py_float(value).num, py_float(value).scale)
             ELSE [t |-> "raised", cls |-> "ValueError"]
        ELSE IF py_int(value).ok THEN VInt(py_int(value).num)
        ELSE [t |-> "raised", cls |-> "ValueError"]

parse_value(text) ==
    LET value == strip(text)
    IN  IF startswith(value, <<QUOTE>>) /\ endswith(value, <<QUOTE>>)
        THEN VStr(inner(value))
        ELSE IF contains_char(value, ".") /\ py_float(value).ok
        THEN VFloat(py_float(value).num, py_float(value).scale)
        ELSE IF ~contains_char(value, ".") /\ py_int(value).ok
        THEN VInt(py_int(value).num)
        ELSE IF lower(value) = TRUE_TEXT THEN VBool(TRUE)
        ELSE IF lower(value) = FALSE_TEXT THEN VBool(FALSE)
        ELSE IF lower(value) = MISSING_VALUE THEN VNone
        ELSE IF startswith(value, <<"{">>) /\ endswith(value, <<"}">>)
        THEN VList([i \in 1..Len(parse_applescript_list(value)) |->
                        VStr(parse_applescript_list(value)[i])])
        ELSE VStr(value)

\* result[key] = value on a dict kept as its items in insertion order
dict_set(kv, key, value) ==
    IF \E i \in 1..Len(kv) : kv[i].k = key
    THEN [i \in 1..Len(kv) |-> IF kv[i].k = key THEN [k |-> key, v |-> value] ELSE kv[i]]
    ELSE Append(kv, [k |-> key, v |-> value])

\* the two characters that end a key in parse_applescript_record
KEY_DELIMITER == <<":", "=">>

\* the scanning loop of parse_applescript_record, from character i on;
\* key is [set |-> current_key is not None, k |-> current_key]
RECURSIVE scan_pairs(_, _, _, _, _, _)
scan_pairs(output, i, res, key, current_value, in_quotes) ==
    IF i > Len(output)
    THEN IF key.set THEN dict_set(res, key.k, parse_value(strip(current_value)))
         ELSE res
    ELSE IF SubSeq(output, i, IF i + 1 <= Len(output) THEN i + 1 ELSE Len(output))
                = KEY_DELIMITER
            /\ ~in_quotes /\ ~key.set
         THEN scan_pairs(output, i + 2, res,
                         [set |-> TRUE, k |-> strip(current_value)], <<>>, in_quotes)
    ELSE IF output[i] = "," /\ ~in_quotes /\ key.set
         THEN scan_pairs(output, i + 1,
                         dict_set(res, key.k, parse_value(strip(current_value))),
                         [set |-> FALSE, k |-> <<>>], <<>>, in_quotes)
    ELSE IF toggles_quote(output[i], current_value)
         THEN scan_pairs(output, i + 1, res, key,
                         Append(current_value, output[i]), ~in_quotes)
    ELSE scan_pairs(output, i + 1, res, key,
                    Append(current_value, output[i]), in_quotes)

\* returns a Python dict
parse_applescript_record(output) ==
    IF output = <<>> THEN VDict(<<>>)
    ELSE VDict(scan_pairs(strip_braces(output), 1, <<>>,
                          [set |-> FALSE, k |-> <<>>], <<>>, FALSE))

----------------------------------------------------------------------------
(* utils/applescript.py: run_applescript_async *)

NoException == [cls |-> "none", msg |-> <<>>]

\* "except Exception" catches every class but the BaseException-only ones
caught_by_except_Exception(e) ==
    e.cls \notin {"none", "CancelledError", "KeyboardInterrupt", "SystemExit"}

APPLESCRIPT_ERROR_PREFIX ==
    <<"A", "p", "p", "l", "e", "S", "c", "r", "i", "p", "t", " ", "e", "r", "r", "o",
      "r", ":", " ">>

EXECUTING_ERROR_PREFIX ==
    <<"E", "r", "r", "o", "r", " ", "e", "x", "e", "c", "u", "t", "i", "n", "g", " ",
      "A", "p", "p", "l", "e", "S", "c", "r", "i", "p", "t", ":", " ">>

\* str() of the UnicodeDecodeError that bytes.decode() raises
DECODE_ERROR_TEXT ==
    <<"'", "u", "t", "f", "-", "8", "'", " ", "c", "o", "d", "e", "c", " ", "c", "a",
      "n", "'", "t", " ", "d", "e", "c", "o", "d", "e">>

\* bytes.decode() of a captured stream
decode(stream, decodable) ==
    IF decodable
    THEN [exc |-> NoException, text |-> stream]
    ELSE [exc |-> [cls |-> "UnicodeDecodeError", msg |-> DECODE_ERROR_TEXT], text |-> <<>>]

\* the body of the try block once the process has exited
after_communicate(p) ==
    IF p.returncode # 0
    THEN LET err == decode(p.stderr, p.decodable)
         IN  IF err.exc # NoException
             THEN [exc |-> err.exc, output |-> <<>>]
             ELSE [exc |-> [cls |-> "AppleScriptError",
                            msg |-> APPLESCRIPT_ERROR_PREFIX \o strip(err.text)],
                   output |-> <<>>]
    ELSE LET out == decode(p.stdout, p.decodable)
         IN  IF out.exc # NoException
             THEN [exc |-> out.exc, output |-> <<>>]
             ELSE [exc |-> NoException, output |-> strip(out.text)]

\* faulty variant: the clause re-raises the exception it caught, unwrapped
wrap_exception_reraises(e) == e

\* the "except Exception as e" clause of run_applescript_async
wrap_exception(e) ==
    [cls |-> "AppleScriptError", msg |-> EXECUTING_ERROR_PREFIX \o e.msg]

\* what run_applescript_async gives its caller: [exc, output].  raised is the
\* exception raised inside its try block (NoException when there is none).
run_applescript_async(raised, output) ==
    IF raised = NoException THEN [exc |-> NoException, output |-> output]
    ELSE IF caught_by_except_Exception(raised)
    THEN [exc |-> wrap_exception(raised), output |-> <<>>]
    ELSE [exc |-> raised, output |-> <<>>]

----------------------------------------------------------------------------
(* utils/calendar.py: CalendarModule *)

NoResult == [kind |-> "none"]

\* faulty variant: the argument is tested with "is not None"
truthy_is_not_None(v) == v # VNone

\* Python truth value of an Optional[str] argument
truthy(v) == v # VNone /\ ~(v.t = "str" /\ v.s = <<>>)

\* One statement of the generated date setup: [stmt, arg], arg the text
\* interpolated into it.
Stmt(stmt, arg) == [stmt |-> stmt, arg |-> arg]

SECONDS_PER_DAY == 86400
SECONDS_PER_HOUR == 3600
SECONDS_PER_MINUTE == 60

\* A datetime that dateutil's parser.parse returned: [day, secs, aware, off], the
\* calendar day (in days), the time of day (in seconds), whether the text carried
\* an offset, and that offset in minutes.  Seconds since day 0, UTC:
instant(dt) ==
    dt.day * SECONDS_PER_DAY + dt.secs
    - (IF dt.aware THEN dt.off ELSE 0) * SECONDS_PER_MINUTE

\* faulty variant: a text without offset is taken as local time already
\* (astimezone() on a naive datetime, without replace(tzinfo=utc))
local_seconds_naive_is_local(dt, local_off) ==
    IF dt.aware
    THEN instant(dt) + local_off * SECONDS_PER_MINUTE
    ELSE dt.day * SECONDS_PER_DAY + dt.secs

\* dt.replace(tzinfo=utc) when naive, then dt.astimezone(): the local clock
\* reading, in seconds since day 0 of the local calendar
local_seconds(dt, local_off) == instant(dt) + local_off * SECONDS_PER_MINUTE

\* faulty variant: the date is read before the conversion to the local zone
local_date_before_conversion(dt, local_off) == instant(dt) \div SECONDS_PER_DAY

local_date(dt, local_off) == local_seconds(dt, local_off) \div SECONDS_PER_DAY

local_time(dt, local_off) == local_seconds(dt, local_off) % SECONDS_PER_DAY

\* (end_dt - start_dt).total_seconds() / 3600 as a float; the date inputs used
\* differ by multiples of 3.6 s, so three decimals hold the quotient exactly
duration_hours(start_dt, end_dt) ==
    LET secs == instant(end_dt) - instant(start_dt)
        mag == IF secs < 0 THEN -secs ELSE secs
        n == float_norm((mag * 1000) \div SECONDS_PER_HOUR, 3)
    IN  VFloat(IF secs < 0 THEN -(n.num) ELSE n.num, n.scale)

\* faulty variant: the end date is derived before the clock fields of the start
\* are set, and the day offset is written even when it is 0
date_setup_end_first(start_date, end_date, now) ==
    IF start_date.parse.ok /\ end_date.parse.ok
    THEN LET start_dt == start_date.parse
             end_dt == end_date.parse
             days_diff == local_date(start_dt, now.local_off) - now.today
             t == local_time(start_dt, now.local_off)
         IN  <<Stmt("set theStartDate to (current date)", <<>>),
               Stmt("set theStartDate to theStartDate + (_ * days)", int_str(days_diff)),
               Stmt("set theEndDate to theStartDate + (_ * hours)",
                    py_str(duration_hours(start_dt, end_dt))),
               Stmt("set hours of theStartDate to _",
                    int_str(t \div SECONDS_PER_HOUR)),
               Stmt("set minutes of theStartDate to _",
                    int_str((t % SECONDS_PER_HOUR) \div SECONDS_PER_MINUTE)),
               Stmt("set seconds of theStartDate to _",
                    int_str(t % SECONDS_PER_MINUTE))>>
    ELSE <<Stmt("set theStartDate to date \"_\"", start_date.text),
           Stmt("set theEndDate to date \"_\"", end_date.text)>>

\* start_date, end_date: [text, parse], the argument and what parser.parse makes
\* of it (parse.ok = FALSE: it raises).  now: [today, local_off].
create_date_setup_script(start_date, end_date, now) ==
    IF start_date.parse.ok /\ end_date.parse.ok
    THEN LET start_dt == start_date.parse
             end_dt == end_date.parse
             days_diff == local_date(start_dt, now.local_off) - now.today
             t == local_time(start_dt, now.local_off)
         IN  <<Stmt("set theStartDate to (current date)", <<>>)>>
             \o (IF days_diff # 0
                 THEN <<Stmt("set theStartDate to theStartDate + (_ * days)",
                             int_str(days_diff))>>
                 ELSE <<>>)
             \o <<Stmt("set hours of theStartDate to _",
                       int_str(t \div SECONDS_PER_HOUR)),
                  Stmt("set minutes of theStartDate to _",
                       int_str((t % SECONDS_PER_HOUR) \div SECONDS_PER_MINUTE)),
                  Stmt("set seconds of theStartDate to _",
                       int_str(t % SECONDS_PER_MINUTE)),
                  Stmt("set theEndDate to theStartDate + (_ * hours)",
                       py_str(duration_hours(start_dt, end_dt)))>>
    ELSE <<Stmt("set theStartDate to date \"_\"", start_date.text),
           Stmt("set theEndDate to date \"_\"", end_date.text)>>

PROPERTIES_OPEN == <<"{", "s", "u", "m", "m", "a", "r", "y", ":">>

PROPERTIES_DATES ==
    <<",", " ", "s", "t", "a", "r", "t", " ", "d", "a", "t", "e", ":", "t", "h", "e",
      "S", "t", "a", "r", "t", "D", "a", "t", "e", ",", " ", "e", "n", "d", " ", "d",
      "a", "t", "e", ":", "t", "h", "e", "E", "n", "d", "D", "a", "t", "e">>

PROPERTIES_LOCATION == <<",", " ", "l", "o", "c", "a", "t", "i", "o", "n", ":">>

PROPERTIES_DESCRIPTION == <<",", " ", "d", "e", "s", "c", "r", "i", "p", "t", "i", "o", "n", ":">>

\* faulty variant: location and description are always written
event_properties_always_written(a) ==
    PROPERTIES_OPEN \o format_applescript_value(a.title) \o PROPERTIES_DATES
    \o PROPERTIES_LOCATION \o format_applescript_value(a.location)
    \o PROPERTIES_DESCRIPTION \o format_applescript_value(a.notes)
    \o <<"}">>

\* the property list of the new event
event_properties(a) ==
    PROPERTIES_OPEN \o format_applescript_value(a.title) \o PROPERTIES_DATES
    \o (IF truthy(a.location)
        THEN PROPERTIES_LOCATION \o format_applescript_value(a.location)
        ELSE <<>>)
    \o (IF truthy(a.notes)
        THEN PROPERTIES_DESCRIPTION \o format_applescript_value(a.notes)
        ELSE <<>>)
    \o <<"}">>

\* The script create_event hands to osascript: which of the two templates, and
\* the texts interpolated into it.
build_event_script(a, now) ==
    [template |-> IF truthy(a.calendar_name) THEN "named calendar" ELSE "default calendar",
     date_setup_script |-> create_date_setup_script(a.start_date, a.end_date, now),
     safe_cal_name |-> IF truthy(a.calendar_name)
                       THEN format_applescript_value(a.calendar_name)
                       ELSE <<>>,
     properties |-> event_properties(a)]

SUCCESS_SENTINEL == <<"S", "U", "C", "C", "E", "S", "S", ":">>

ERROR_SENTINEL == <<"E", "R", "R", "O", "R", ":">>

\* faulty variant: the sentinel is looked for anywhere in the reply
is_success_anywhere(reply) ==
    \E i \in 1..Len(reply) : startswith(SubSeq(reply, i, Len(reply)), SUCCESS_SENTINEL)

\* success = result.startswith("SUCCESS:")
is_success(reply) == startswith(reply, SUCCESS_SENTINEL)

\* result.replace("SUCCESS:", "").replace("ERROR:", "")
reply_message(reply) == replace(replace(reply, SUCCESS_SENTINEL, <<>>), ERROR_SENTINEL, <<>>)

\* faulty variant: the clause logs the exception and raises it again
create_event_except_reraises(e) == [exc |-> e, result |-> NoResult]

\* the "except Exception as e" clause of create_event: [exc, result]
create_event_except(e) ==
    [exc |-> NoException,
     result |-> [kind |-> "event", success |-> FALSE, message |-> e.msg]]

\* create_event from the return of run_applescript_async on: [exc, result]
create_event_finish(r) ==
    IF r.exc = NoException
    THEN [exc |-> NoException,
          result |-> [kind |-> "event", success |-> is_success(r.output),
                      message |-> reply_message(r.output)]]
    ELSE IF caught_by_except_Exception(r.exc) THEN create_event_except(r.exc)
    ELSE [exc |-> r.exc, result |-> NoResult]

\* the script of check_calendar_access (no interpolation)
ACCESS_SCRIPT ==
    [template |-> "calendar access", date_setup_script |-> <<>>,
     safe_cal_name |-> <<>>, properties |-> <<>>]

\* faulty variant: the reply is compared without lower()
access_granted_case_sensitive(reply) == strip(reply) = TRUE_TEXT

\* result.lower().strip() == "true"
access_granted(reply) == strip(lower(reply)) = TRUE_TEXT

\* check_calendar_access from the return of run_applescript_async on
check_calendar_access_finish(r) ==
    IF r.exc = NoException
    THEN [exc |-> NoException, result |-> [kind |-> "access", ok |-> access_granted(r.output)]]
    ELSE IF caught_by_except_Exception(r.exc)
    THEN [exc |-> NoException, result |-> [kind |-> "access", ok |-> FALSE]]
    ELSE [exc |-> r.exc, result |-> NoResult]

----------------------------------------------------------------------------
(* apple_mcp.py: the create_event tool *)

\* the parameters of CalendarModule.create_event, self aside
CREATE_EVENT_PARAMETERS ==
    {"title", "start_date", "end_date", "location", "notes", "calendar_name"}

CREATE_EVENT_REQUIRED == {"title", "start_date", "end_date"}

\* the keyword arguments the tool passes
TOOL_KEYWORDS ==
    {"title", "start_date", "end_date", "location", "notes", "is_all_day", "calendar_name"}

\* Python binds a call's keywords to the parameters before the body runs and
\* raises TypeError for a keyword that is no parameter or a required one missing
binds(keywords, parameters, required) ==
    keywords \subseteq parameters /\ required \subseteq keywords

UNEXPECTED_KEYWORD_TEXT ==
    <<"u", "n", "e", "x", "p", "e", "c", "t", "e", "d", " ", "k", "e", "y", "w", "o",
      "r", "d", " ", "a", "r", "g", "u", "m", "e", "n", "t">>

----------------------------------------------------------------------------
(* The inputs explored *)

\* the bounds of the exploration
MaxPad == 1
MaxPieces == 2
MaxStrLen == 2
MaxElemLen == 1
MaxListLen == 2

SeqsUpTo(S, n) == UNION {[1..k -> S] : k \in 0..n}

RECURSIVE concat(_)
concat(texts) == IF texts = <<>> THEN <<>> ELSE Head(texts) \o concat(Tail(texts))

\* Captured output: a core made of pieces, with whitespace around it.
Pads == SeqsUpTo({" ", "\n"}, MaxPad)

ReplyPieces ==
    {SUCCESS_SENTINEL, ERROR_SENTINEL, <<"x">>, TRUE_TEXT, <<"T", "r", "U", "E">>}

ReplyCores == {concat(ps) : ps \in SeqsUpTo(ReplyPieces, MaxPieces)}

Stdouts == {l \o c \o r : l \in Pads, c \in ReplyCores, r \in Pads}

Stderrs == {l \o c \o r : l \in Pads, c \in {<<>>, <<"e", "r", "r">>, ERROR_SENTINEL}, r \in Pads}

\* the replies of the specification's examples
BasicStdouts ==
    {SUCCESS_SENTINEL \o 
    <<"E", "v", "e", "n", "t", " ", "c", "r", "e", "a", "t", "e", "d", " ", "s", "u",
      "c", "c", "e", "s", "s", "f", "u", "l", "l", "y">>,
     ERROR_SENTINEL \o 
    <<"C", "a", "l", "e", "n", "d", "a", "r", " ", "n", "o", "t", " ", "f", "o", "u",
      "n", "d">>,
     TRUE_TEXT}

BasicStderrs == {<<"e", "r", "r", "\n">>}

OsErrors == {
    <<"N", "o", " ", "s", "u", "c", "h", " ", "f", "i", "l", "e", " ", "o", "r", " ",
      "d", "i", "r", "e", "c", "t", "o", "r", "y", ":", " ", "'", "o", "s", "a", "s",
      "c", "r", "i", "p", "t", "'">>}

Unparsed == [ok |-> FALSE, day |-> 0, secs |-> 0, aware |-> FALSE, off |-> 0]

Parsed(day, secs, aware, off) ==
    [ok |-> TRUE, day |-> day, secs |-> secs, aware |-> aware, off |-> off]

\* start_date / end_date arguments with what dateutil makes of them; day 0 is
\* 2025-04-22
StartDates ==
    {[text |-> 
    <<"2", "0", "2", "5", "-", "0", "4", "-", "2", "2", "T", "0", "9", ":", "0", "0",
      ":", "0", "0", "+", "0", "9", ":", "0", "0">>, parse |-> Parsed(0, 32400, TRUE, 540)],
     [text |-> 
    <<"2", "0", "2", "5", "-", "0", "4", "-", "2", "2", " ", "2", "3", ":", "3", "0",
      ":", "0", "0">>, parse |-> Parsed(0, 84600, FALSE, 0)],
     [text |-> <<"s", "o", "o", "n", "\"">>, parse |-> Unparsed]}

EndDates ==
    {[text |-> 
    <<"2", "0", "2", "5", "-", "0", "4", "-", "2", "2", "T", "1", "0", ":", "0", "0",
      ":", "0", "0", "+", "0", "9", ":", "0", "0">>, parse |-> Parsed(0, 36000, TRUE, 540)],
     [text |-> 
    <<"2", "0", "2", "5", "-", "0", "4", "-", "2", "3", " ", "0", "1", ":", "0", "0",
      ":", "0", "0">>, parse |-> Parsed(1, 3600, FALSE, 0)],
     [text |-> 
    <<"2", "0", "2", "5", "-", "0", "4", "-", "2", "1", "T", "2", "2", ":", "3", "0",
      ":", "0", "0", "Z">>, parse |-> Parsed(-1, 81000, TRUE, 0)]}

Titles == {VStr(<<"a">>), VStr(<<QUOTE, ";">>)}

Optionals == {VNone, VStr(<<>>), VStr(<<"w">>)}

\* the local date of now and the offset of the local zone, in minutes
Clocks == [today : {-1, 0}, local_off : {540, -300}]

NoClock == [today |-> 0, local_off |-> 0]

Args ==
    [title : Titles, start_date : StartDates, end_date : EndDates,
     location : Optionals, notes : Optionals, calendar_name : Optionals]

\* a CalendarEvent of the tool: the same fields and is_all_day
Events ==
    [title : Titles, start_date : StartDates, end_date : EndDates,
     location : Optionals, notes : Optionals, calendar_name : Optionals,
     is_all_day : BOOLEAN]

NoArgs == [title |-> VNone]

NoScript ==
    [template |-> "none", date_setup_script |-> <<>>, safe_cal_name |-> <<>>,
     properties |-> <<>>]

NoProc ==
    [launched |-> "no", oserror |-> <<>>, exited |-> FALSE, returncode |-> 0,
     stdout |-> <<>>, stderr |-> <<>>, decodable |-> TRUE]

\* osascript not running the event script: [at, c, foundCalendar, compared], the
\* statement it stands at, the position of the repeat loop, the calendar held
\* by foundCalendar / defaultCalendar (0: missing value) and the number of name
\* comparisons made
NoRun == [at |-> "off", c |-> 0, foundCalendar |-> 0, compared |-> 0]

\* The calls whose subprocess is explored with every captured output of Stdouts
\* and Stderrs; the other calls are explored with the basic ones.
deep(o, a) ==
    \/ o = "check"
    \/ /\ o = "create"
       /\ a.title = VStr(<<"a">>) /\ a.location = VNone /\ a.notes = VNone
       /\ a.calendar_name = VNone
       /\ a.start_date.parse.ok /\ a.start_date.parse.aware
       /\ a.end_date.parse = Parsed(0, 36000, TRUE, 540)

\* what the subprocess of call (o, a) may do once launched
Exits(o, a) ==
    [returncode : {0}, decodable : {TRUE}, stderr : {<<>>},
     stdout : IF deep(o, a) THEN Stdouts ELSE BasicStdouts]
    \cup [returncode : {1}, decodable : {TRUE}, stdout : {<<>>, SUCCESS_SENTINEL},
          stderr : IF deep(o, a) THEN Stderrs ELSE BasicStderrs]
    \cup [returncode : {0, 1}, decodable : {FALSE}, stdout : {<<>>}, stderr : {<<>>}]

----------------------------------------------------------------------------
(* The calendar operations as a state machine; an action runs the code from one
   await to the next. *)

\* the other parts of the repository are not in use
OthersOff == calls = <<>> /\ files = <<>> /\ slack = <<>> /\ jira = <<>>

MarshalOff == mval = VNone /\ mtext = <<>> /\ mout = VNone /\ mpc = "off"

CalendarOff ==
    /\ op = "none" /\ pc = "idle" /\ args = NoArgs /\ clock = NoClock
    /\ script = NoScript /\ proc = NoProc /\ exc = NoException /\ result = NoResult
    /\ cals = <<>> /\ osa = NoRun

Init == MarshalOff /\ CalendarOff /\ OthersOff

\* faulty variant: a request whose end lies before its start is turned down
\* without a subprocess
CallCreateEvent_validates ==
    /\ pc = "idle"
    /\ \E a \in Args, c \in Clocks :
        /\ op' = "create"
        /\ args' = a
        /\ clock' = c
        /\ script' = build_event_script(a, c)
        /\ IF /\ a.start_date.parse.ok /\ a.end_date.parse.ok
              /\ instant(a.end_date.parse) < instant(a.start_date.parse)
           THEN /\ pc' = "done"
                /\ result' = [kind |-> "event", success |-> FALSE,
                              message |-> <<"e", "n", "d">>]
           ELSE /\ pc' = "launching"
                /\ result' = result
    /\ UNCHANGED <<proc, exc, mvars, svars, ovars>>

\* CalendarModule.create_event is called: it builds the script and awaits
\* create_subprocess_exec inside run_applescript_async
CallCreateEvent ==
    /\ pc = "idle"
    /\ \E a \in Args, c \in Clocks :
        /\ op' = "create"
        /\ args' = a
        /\ clock' = c
        /\ script' = build_event_script(a, c)
    /\ pc' = "launching"
    /\ UNCHANGED <<proc, exc, result, mvars, svars, ovars>>

\* The create_event tool is called: it calls CalendarModule.create_event with
\* its keywords and returns what that call returns.
ToolCreateEvent ==
    /\ pc = "idle"
    /\ \E event \in Events, c \in Clocks :
        /\ op' = "tool"
        /\ args' = event
        /\ IF binds(TOOL_KEYWORDS, CREATE_EVENT_PARAMETERS, CREATE_EVENT_REQUIRED)
           THEN /\ clock' = c
                /\ script' = build_event_script(event, c)
                /\ pc' = "launching"
                /\ exc' = NoException
           ELSE /\ clock' = NoClock
                /\ script' = NoScript
                /\ pc' = "raised"
                /\ exc' = [cls |-> "TypeError", msg |-> UNEXPECTED_KEYWORD_TEXT]
    /\ UNCHANGED <<proc, result, mvars, svars, ovars>>

\* check_calendar_access is called
CallCheckCalendarAccess ==
    /\ pc = "idle"
    /\ op' = "check"
    /\ script' = ACCESS_SCRIPT
    /\ pc' = "launching"
    /\ UNCHANGED <<args, clock, proc, exc, result, mvars, svars, ovars>>

\* the operation resumes with r, what run_applescript_async gave it
Finish(r) ==
    LET f == IF op = "check" THEN check_calendar_access_finish(r)
             ELSE create_event_finish(r)
    IN  /\ result' = f.result
        /\ exc' = f.exc
        /\ pc' = IF f.exc = NoException THEN "done" ELSE "raised"

\* faulty variant: a launch that failed is tried again
LaunchFails_retries ==
    /\ pc = "launching"
    /\ \E e \in OsErrors : proc' = [proc EXCEPT !.launched = "failed", !.oserror = e]
    /\ pc' = "launching"
    /\ UNCHANGED <<op, args, clock, script, exc, result, mvars, svars, ovars>>

\* create_subprocess_exec raises: osascript cannot be started
LaunchFails ==
    /\ pc = "launching"
    /\ \E e \in OsErrors :
        /\ proc' = [proc EXCEPT !.launched = "failed", !.oserror = e]
        /\ Finish(run_applescript_async([cls |-> "FileNotFoundError", msg |-> e], <<>>))
    /\ UNCHANGED <<op, args, clock, script, mvars, svars, ovars>>

\* faulty variant: the wait for the subprocess is bounded, and on expiry a
\* timeout failure is returned while the subprocess runs on
LaunchSucceeds_times_out ==
    /\ pc = "launching"
    /\ proc' = [proc EXCEPT !.launched = "ok"]
    /\ result' = [kind |-> "event", success |-> FALSE,
                  message |-> <<"t", "i", "m", "e", "o", "u", "t">>]
    /\ pc' = "done"
    /\ UNCHANGED <<op, args, clock, script, exc, mvars, svars, ovars>>

\* create_subprocess_exec returns; the code awaits process.communicate()
LaunchSucceeds ==
    /\ pc = "launching"
    /\ proc' = [proc EXCEPT !.launched = "ok"]
    /\ pc' = "running"
    /\ UNCHANGED <<op, args, clock, script, exc, result, mvars, svars, ovars>>

\* the subprocess exits and communicate() returns
ProcessExits ==
    /\ pc = "running"
    /\ \E x \in Exits(op, args) :
        LET p == [proc EXCEPT !.exited = TRUE, !.returncode = x.returncode,
                              !.stdout = x.stdout, !.stderr = x.stderr,
                              !.decodable = x.decodable]
            body == after_communicate(p)
        IN  /\ proc' = p
            /\ Finish(run_applescript_async(body.exc, body.output))
    /\ UNCHANGED <<op, args, clock, script, mvars, svars, ovars>>

Next ==
    \/ CallCreateEvent
    \/ ToolCreateEvent
    \/ CallCheckCalendarAccess
    \/ LaunchFails
    \/ LaunchSucceeds
    \/ ProcessExits

Spec == Init /\ [][Next]_vars

\* a step in which the awaited create_subprocess_exec returns or raises: within
\* Next, the steps of LaunchFails and LaunchSucceeds
LaunchReturns == pc = "launching" /\ pc' \in {"running", "done", "raised"}

\* a step in which the subprocess exits and communicate() returns: within Next,
\* the steps of ProcessExits
SubprocessExits == pc = "running" /\ pc' \in {"done", "raised"}

\* The same machine under the scheduling the code relies on: an awaited
\* create_subprocess_exec returns or raises, and the subprocess, once started,
\* exits.
SpecFair ==
    /\ Spec
    /\ WF_pc(LaunchReturns)
    /\ WF_pc(SubprocessExits)

----------------------------------------------------------------------------
(* Claims about the calendar operations (checked under Spec) *)

IsText(m) == DOMAIN m = 1..Len(m) /\ \A i \in 1..Len(m) : m[i] \in STRING

\* text r begins with the text sentinel
BeginsWith(r, sentinel) ==
    /\ Len(r) >= Len(sentinel)
    /\ \A i \in 1..Len(sentinel) : r[i] = sentinel[i]

\* text r with its first n characters removed
After(r, n) == [i \in 1..(Len(r) - n) |-> r[i + n]]

\* the call ended on a failure path of the subprocess
FailurePath ==
    \/ proc.launched = "failed"
    \/ proc.exited /\ (proc.returncode # 0 \/ ~proc.decodable)

\* the subprocess exited with status 0 and readable output, and the call is over
ExitedZero == pc = "done" /\ proc.exited /\ proc.returncode = 0 /\ proc.decodable

\* the reply text: the captured standard output, trimmed
Reply == strip(proc.stdout)

\* C1: CalendarModule.create_event never raises to its caller: whatever the
\* arguments and whatever the subprocess does (fails to launch, exits non-zero,
\* exits zero with any output), the call returns {success, message}, and success
\* is false on every failure path.
C1_CreateEventNeverRaises ==
    op = "create" =>
        /\ pc # "raised"
        /\ exc = NoException
        /\ pc = "done" =>
            /\ result.kind = "event"
            /\ result.success \in BOOLEAN
            /\ IsText(result.message)
            /\ FailurePath => result.success = FALSE

\* a create_event call whose subprocess could not be launched has returned
C1_Witness ==
    /\ op = "create" /\ pc = "done" /\ proc.launched = "failed"
    /\ result.kind = "event" /\ result.success = FALSE
    /\ result.message = EXECUTING_ERROR_PREFIX \o proc.oserror

\* C2: the create_event tool passes only keyword arguments that
\* CalendarModule.create_event accepts, so every tool call reaches the calendar
\* operation (a script is built) and ends with a result, never an exception.
C2_ToolCallReachesCalendar ==
    op = "tool" =>
        /\ pc # "raised"
        /\ script # NoScript
        /\ pc = "done" => result.kind = "event"

\* C3: when the subprocess exits with status 0, success is true if and only if
\* the reply begins with "SUCCESS:" (so a reply beginning with "ERROR:" or with
\* neither sentinel gives success = false).
C3_SuccessIffSentinel ==
    (op = "create" /\ ExitedZero) =>
        (result.success <=> BeginsWith(Reply, SUCCESS_SENTINEL))

\* a padded reply that begins with "SUCCESS:" once trimmed was classified as a
\* success
C3_Witness ==
    /\ op = "create" /\ ExitedZero
    /\ BeginsWith(Reply, SUCCESS_SENTINEL) /\ result.success
    /\ proc.stdout # Reply

\* C4: the message is exactly the reply with its leading sentinel removed; a
\* later "SUCCESS:" or "ERROR:" inside the reply stays in the message.
C4_MessageIsReplyAfterSentinel ==
    (op = "create" /\ ExitedZero) =>
        /\ BeginsWith(Reply, SUCCESS_SENTINEL) =>
            result.message = After(Reply, Len(SUCCESS_SENTINEL))
        /\ BeginsWith(Reply, ERROR_SENTINEL) =>
            result.message = After(Reply, Len(ERROR_SENTINEL))

IsTrueWord(r) ==
    /\ Len(r) = 4
    /\ r[1] \in {"t", "T"} /\ r[2] \in {"r", "R"}
    /\ r[3] \in {"u", "U"} /\ r[4] \in {"e", "E"}

\* C6: check_calendar_access returns true exactly when the reply, lower-cased
\* and trimmed, is "true"; it returns false for any other reply and for any
\* failure to run the script, and never raises.
C6_AccessIffReplyTrue ==
    op = "check" =>
        /\ pc # "raised"
        /\ exc = NoException
        /\ pc = "done" =>
            /\ result.kind = "access"
            /\ result.ok <=> (ExitedZero /\ IsTrueWord(Reply))

\* access was granted on a reply that had to be trimmed and lower-cased
C6_Witness ==
    /\ op = "check" /\ pc = "done" /\ result.kind = "access" /\ result.ok
    /\ proc.stdout # TRUE_TEXT /\ Reply # TRUE_TEXT

----------------------------------------------------------------------------
(* The marshaling layer: a value is formatted and the text is parsed back *)

Alphabet == {"a", "1", QUOTE, "'", BACKSLASH, ",", " "}

QUOTED_EXAMPLE == 
    <<"a", " ", "\"", "q", "u", "o", "t", "e", "d", "\"", " ", "s", "t", "r", "i", "n",
      "g">>

EVIL_EXAMPLE == 
    <<"\"", ";", " ", "d", "o", " ", "s", "o", "m", "e", "t", "h", "i", "n", "g", " ",
      "e", "v", "i", "l", " ", "-", "-">>

THREE == <<"t", "h", "r", "e", "e">>

\* the primitives of the specification's round-trip property: 3.14 is 314 / 10^2
PrimitiveExamples ==
    {VNone, VBool(TRUE), VBool(FALSE), VInt(42), VFloat(314, 2), VStr(QUOTED_EXAMPLE)}

Primitives ==
    PrimitiveExamples
    \cup {VInt(0), VInt(-7), VFloat(2, 0), VFloat(-5, 1), VStr(EVIL_EXAMPLE)}
    \cup {VStr(s) : s \in SeqsUpTo(Alphabet, MaxStrLen)}

ElemAlphabet == {"a", "'", ",", QUOTE, BACKSLASH}

ListElems ==
    {VInt(1), VInt(2), VInt(-7), VStr(THREE)}
    \cup {VStr(s) : s \in SeqsUpTo(ElemAlphabet, MaxElemLen)}

Lists == {VList(xs) : xs \in SeqsUpTo(ListElems, MaxListLen)}

Keys == {<<"a">>, <<"b">>}

RecordValues == {VInt(1), VInt(42), VStr(<<"x">>)}

\* flat records with bare-identifier keys, in either insertion order
Records ==
    {VDict(<<>>)}
    \cup {VDict(<<kv>>) : kv \in [k : Keys, v : RecordValues]}
    \cup {VDict(<<kv1, kv2>>) : kv1 \in [k : {<<"a">>}, v : RecordValues],
                                kv2 \in [k : {<<"b">>}, v : RecordValues]}
    \cup {VDict(<<kv2, kv1>>) : kv1 \in [k : {<<"a">>}, v : RecordValues],
                                kv2 \in [k : {<<"b">>}, v : RecordValues]}

\* lists with a list among their elements
NestedLists ==
    {VList(<<VList(<<VInt(1), VInt(2)>>), VInt(2)>>),
     VList(<<VStr(<<"a">>), VList(<<VInt(1)>>)>>),
     VList(<<VList(<<>>)>>)}

Values == Primitives \cup Lists \cup NestedLists \cup Records

\* A text that reaches a parser as osascript printed it, kept with the elements
\* it was written from.
Written(items) == [t |-> "written", items |-> items]

LIST_EXAMPLE_ITEMS == <<<<QUOTE, "a", ",", " ", "b", QUOTE>>, <<QUOTE, "c", QUOTE>>>>

list_text(items) == <<"{">> \o join(<<",", " ">>, items) \o <<"}">>

\* Well-formed list texts: elements separated by ", " between braces, each a
\* bare word or a string literal.  Between its quotes a literal holds plain
\* characters, escaped double quotes and escaped backslashes.
ListTexts ==
    LET tokens == {<<"a">>, <<",">>, <<BACKSLASH, QUOTE>>, <<BACKSLASH, BACKSLASH>>}
        literals == {<<QUOTE>> \o concat(ts) \o <<QUOTE>> :
                        ts \in SeqsUpTo(tokens, MaxElemLen)}
        bare == {<<"a">>, <<"1">>}
    IN  {LIST_EXAMPLE_ITEMS} \cup SeqsUpTo(literals \cup bare, MaxListLen)

FORTY_TWO == <<"4", "2">>

\* single values as printed: the specification's examples and short texts
ValueTexts ==
    {<<QUOTE>> \o FORTY_TWO \o <<QUOTE>>, <<QUOTE>> \o TRUE_TEXT \o <<QUOTE>>,
     FORTY_TWO, TRUE_TEXT, FALSE_TEXT, <<"T", "R", "U", "E">>, <<"F", "a", "l", "s", "e">>,
     MISSING_VALUE, <<"3", ".", "1", "4">>, <<"{", "a", ",", " ", "b", "}">>,
     <<"a", "b", "c">>, <<QUOTE, "a", " ", "b", QUOTE>>,
     <<"1", ".", "2", ".", "3">>, <<"{", QUOTE, "a", ",">>}
    \cup SeqsUpTo({"a", "1", QUOTE, ".", "-", "{", "}", " ", ","}, MaxStrLen)

\* what the layer starts from: a native value to format, or a printed text
MarshalInputs ==
    {[val |-> v, text |-> <<>>, pc |-> "value"] : v \in Values}
    \cup {[val |-> Written(items), text |-> list_text(items), pc |-> "text"] :
            items \in ListTexts}
    \cup {[val |-> Written(<<t>>), text |-> t, pc |-> "text"] : t \in ValueTexts}

InitMarshal ==
    /\ CalendarOff /\ OthersOff
    /\ \E i \in MarshalInputs : mval = i.val /\ mtext = i.text /\ mpc = i.pc
    /\ mout = VNone

\* format_applescript_value(mval)
Format ==
    /\ mpc = "value"
    /\ mtext' = format_applescript_value(mval)
    /\ mpc' = "formatted"
    /\ UNCHANGED <<mval, mout, cvars, svars, ovars>>

\* parse_value(mtext)
ParseValue ==
    /\ mpc \in {"formatted", "text"}
    /\ mout' = parse_value(mtext)
    /\ mpc' = "parsed_value"
    /\ UNCHANGED <<mval, mtext, cvars, svars, ovars>>

\* parse_applescript_list(mtext): a list of str
ParseList ==
    /\ mpc \in {"formatted", "text"}
    /\ mout' = VList([i \in 1..Len(parse_applescript_list(mtext)) |->
                        VStr(parse_applescript_list(mtext)[i])])
    /\ mpc' = "parsed_list"
    /\ UNCHANGED <<mval, mtext, cvars, svars, ovars>>

\* parse_applescript_record(mtext)
ParseRecord ==
    /\ mpc \in {"formatted", "text"}
    /\ mout' = parse_applescript_record(mtext)
    /\ mpc' = "parsed_record"
    /\ UNCHANGED <<mval, mtext, cvars, svars, ovars>>

NextMarshal ==
    \/ Format
    \/ ParseValue
    \/ ParseList
    \/ ParseRecord

SpecMarshal == InitMarshal /\ [][NextMarshal]_vars

----------------------------------------------------------------------------
(* Claims about the marshaling layer (checked under SpecMarshal) *)

\* Where the AppleScript string literal whose text starts before position i ends:
\* the position of the first double quote from i on that no backslash escapes
\* (inside a literal a backslash takes the next character with it); 0 if none.
RECURSIVE literal_end(_, _)
literal_end(text, i) ==
    IF i > Len(text) THEN 0
    ELSE IF text[i] = BACKSLASH THEN literal_end(text, i + 2)
    ELSE IF text[i] = QUOTE THEN i
    ELSE literal_end(text, i + 1)

\* C7: the rendering of a string starts and ends with a double quote and holds
\* no unescaped double quote in between: the literal that opens at its first
\* character is not closed before the last one, so no suffix of the input lies
\* outside it as script code.
C7_LiteralNeverBreaksOut ==
    (mpc # "value" /\ mval.t = "str") =>
        /\ Len(mtext) >= 2
        /\ mtext[1] = QUOTE /\ mtext[Len(mtext)] = QUOTE
        /\ literal_end(mtext, 2) \notin 2..(Len(mtext) - 1)

\* C8: for every v among None, True, False, 42, 3.14 and the string
\* a "quoted" string, parse_value(format_applescript_value(v)) is v again.
C8_PrimitiveRoundTrip ==
    (mpc = "parsed_value" /\ mval \in PrimitiveExamples) => mout = mval

\* the items of a dict as a set (its keys are distinct)
Items(kv) == {kv[i] : i \in 1..Len(kv)}

\* C9: for every flat record R (bare-identifier keys, integer or plain string
\* values), parse_applescript_record(format_applescript_value(R)) is a dict
\* with exactly the keys of R, each with its value.
C9_RecordRoundTrip ==
    (mpc = "parsed_record" /\ mval \in Records) =>
        /\ mout.t = "dict"
        /\ Items(mout.kv) = Items(mval.kv)

\* a list element the claim C10 covers: an integer, or a string without double
\* quote, backslash, comma or brace
PlainElem(x) ==
    \/ x.t = "int"
    \/ /\ x.t = "str"
       /\ \A i \in 1..Len(x.s) : x.s[i] \notin {QUOTE, BACKSLASH, ",", "{", "}"}

\* C10: for every list L of such elements,
\* parse_applescript_list(format_applescript_value(L)) has the length of L, and
\* its i-th element is the decimal text of L[i] for a number and L[i] itself for
\* a string.
C10_ListRoundTrip ==
    (mpc = "parsed_list" /\ mval \in Lists
     /\ \A i \in 1..Len(mval.xs) : PlainElem(mval.xs[i])) =>
        /\ Len(mout.xs) = Len(mval.xs)
        /\ \A i \in 1..Len(mval.xs) :
            mout.xs[i] = VStr(py_str(mval.xs[i]))

\* a text with one matching pair of surrounding double quotes removed
unquoted(item) ==
    IF Len(item) >= 2 /\ item[1] = QUOTE /\ item[Len(item)] = QUOTE
    THEN SubSeq(item, 2, Len(item) - 1)
    ELSE item

\* C11: for every well-formed list text, parse_applescript_list returns one
\* element for each element written, in order, each being the written element
\* with one matching pair of surrounding double quotes removed: the elements are
\* delimited only by the commas outside string literals, a comma inside a
\* double-quoted substring is never a split point.
C11_CommaInQuotesNeverSplits ==
    (mpc = "parsed_list" /\ mval.t = "written" /\ mtext = list_text(mval.items)) =>
        /\ Len(mout.xs) = Len(mval.items)
        /\ \A i \in 1..Len(mval.items) : mout.xs[i] = VStr(unquoted(mval.items[i]))

\* the specification's example {"a, b", "c"} parsed into its two elements
C11_ExampleParsed ==
    /\ mpc = "parsed_list" /\ mval = Written(LIST_EXAMPLE_ITEMS)
    /\ mout = VList(<<VStr(<<"a", ",", " ", "b">>), VStr(<<"c">>)>>)

\* what an element of a formatted list comes back as: a string as itself, any
\* other element as its rendering
element_text(x) == IF x.t = "str" THEN x.s ELSE format_applescript_value(x)

\* C12: for every list L rendered by format_applescript_value, string elements
\* with double quotes, commas and backslashes (a trailing backslash too) and
\* nested lists included, parse_applescript_list returns exactly len(L)
\* elements, the i-th corresponding to L[i].
C12_FormattedListRoundTrip ==
    (mpc = "parsed_list" /\ mval.t = "list") =>
        /\ Len(mout.xs) = Len(mval.xs)
        /\ \A i \in 1..Len(mval.xs) : mout.xs[i] = VStr(element_text(mval.xs[i]))

\* one character of a string as the reference literal writes it
escaped_char(c) == IF c \in {QUOTE, "'"} THEN <<BACKSLASH, c>> ELSE <<c>>

\* the parts of a brace literal, ", " before every part but the first
separated(parts) ==
    concat([i \in 1..Len(parts) |-> (IF i > 1 THEN <<",", " ">> ELSE <<>>) \o parts[i]])

\* the reference literal of a value, variant by variant
RECURSIVE reference_literal(_)
reference_literal(v) ==
    CASE v.t = "none" -> MISSING_VALUE
      [] v.t = "bool" -> IF v.b THEN TRUE_TEXT ELSE FALSE_TEXT
      [] v.t = "int" -> int_str(v.i)
      [] v.t = "float" -> float_str(v.num, v.scale)
      [] v.t = "list" ->
            <<"{">> \o separated([i \in 1..Len(v.xs) |-> reference_literal(v.xs[i])])
            \o <<"}">>
      [] v.t = "dict" ->
            <<"{">>
            \o separated([i \in 1..Len(v.kv) |->
                            v.kv[i].k \o <<":">> \o reference_literal(v.kv[i].v)])
            \o <<"}">>
      [] v.t = "str" ->
            <<QUOTE>> \o concat([i \in 1..Len(v.s) |-> escaped_char(v.s[i])]) \o <<QUOTE>>

\* C13: format_applescript_value renders every value as its reference literal:
\* None as missing value, a bool as lowercase true or false (never as a number
\* or as True), a number as its decimal text, a list as its elements' literals
\* joined by ", " between braces, a mapping the same way with each pair written
\* key:value under an unquoted key, any other value as a double-quoted escaped
\* string.
C13_RendersReferenceLiteral ==
    (mpc # "value" /\ mval.t # "written") => mtext = reference_literal(mval)

\* True was rendered, as the word true
C13_Witness ==
    mpc = "formatted" /\ mval = VBool(TRUE) /\ mtext = TRUE_TEXT

\* text between a pair of double quotes
IsQuoted(v) == Len(v) >= 1 /\ v[1] = QUOTE /\ v[Len(v)] = QUOTE

\* an optional minus sign, then digits with at most one "." among them and at
\* least one digit
IsNumberText(v) ==
    LET u == IF v # <<>> /\ v[1] = "-" THEN Tail(v) ELSE v
    IN  /\ \A i \in 1..Len(u) : is_digit(u[i]) \/ u[i] = "."
        /\ \E i \in 1..Len(u) : is_digit(u[i])
        /\ Cardinality({i \in 1..Len(u) : u[i] = "."}) <= 1

\* C14: parse_value decides in a fixed order.  A text between double quotes is
\* the string between them, whatever that string looks like ("42" is the string
\* 42, "true" the string true); otherwise a number text is a number (42 is the
\* integer 42, a text with "." a float); otherwise true or false in any letter
\* case is a boolean; otherwise missing value is None; otherwise a text between
\* braces is a list; any other text is that text as a string.
C14_ParseValueOrder ==
    (mpc = "parsed_value" /\ mval.t = "written") =>
        LET v == strip(mtext)
        IN  IF IsQuoted(v) THEN mout = VStr(IF Len(v) = 1 THEN <<>> ELSE unquoted(v))
            ELSE IF IsNumberText(v)
            THEN /\ mout.t = (IF contains_char(v, ".") THEN "float" ELSE "int")
                 /\ v = FORTY_TWO => mout = VInt(42)
            ELSE IF lower(v) \in {TRUE_TEXT, FALSE_TEXT}
            THEN mout = VBool(lower(v) = TRUE_TEXT)
            ELSE IF lower(v) = MISSING_VALUE THEN mout = VNone
            ELSE IF v # <<>> /\ v[1] = "{" /\ v[Len(v)] = "}" THEN mout.t = "list"
            ELSE mout = VStr(v)

\* the quoted text "42" was parsed, to the string 42
C14_Witness ==
    /\ mpc = "parsed_value"
    /\ mval = Written(<<<<QUOTE>> \o FORTY_TWO \o <<QUOTE>>>>)
    /\ mout = VStr(FORTY_TWO)

----------------------------------------------------------------------------
(* Claims about the script create_event builds (checked under Spec) *)

\* a create_event call has built its script
ScriptBuilt == op = "create" /\ pc # "idle"

\* both date arguments of the call are parseable
DatesParsed == args.start_date.parse.ok /\ args.end_date.parse.ok

\* the texts interpolated into the statements of the date setup that read stmt
ArgsOf(stmt) ==
    {script.date_setup_script[i].arg :
        i \in {j \in 1..Len(script.date_setup_script) :
                script.date_setup_script[j].stmt = stmt}}

\* The instant a date argument names, in seconds since day 0 UTC: a text with
\* an offset lies that offset after UTC, a text without one is read as UTC.
UtcSeconds(d) ==
    IF d.parse.aware
    THEN d.parse.day * 86400 + d.parse.secs - d.parse.off * 60
    ELSE d.parse.day * 86400 + d.parse.secs

\* the reading of the local clock at that instant, in seconds since local day 0
LocalSeconds(d) == UtcSeconds(d) + clock.local_off * 60

\* C15: for parseable start and end and every now, the day offset written into
\* the script is the whole-day difference between the local calendar date of
\* start and the local date of today (the offset d with start inside local day
\* today + d; no offset statement stands for d = 0), and the duration written
\* is (local end - local start) in hours; start 09:00+09:00 and end 10:00+09:00
\* of the same day give 1.0.
C15_OffsetAndDuration ==
    (ScriptBuilt /\ DatesParsed) =>
        /\ \E d \in -3..3 :
            /\ (clock.today + d) * 86400 <= LocalSeconds(args.start_date)
            /\ LocalSeconds(args.start_date) < (clock.today + d + 1) * 86400
            /\ ArgsOf("set theStartDate to theStartDate + (_ * days)")
                = IF d = 0 THEN {} ELSE {int_str(d)}
        /\ \E w \in ArgsOf("set theEndDate to theStartDate + (_ * hours)") :
            /\ ArgsOf("set theEndDate to theStartDate + (_ * hours)") = {w}
            /\ py_float(w).ok
            /\ py_float(w).num * 3600
                = (LocalSeconds(args.end_date) - LocalSeconds(args.start_date))
                  * pow10(py_float(w).scale)
            /\ (args.start_date.parse = Parsed(0, 32400, TRUE, 540)
                /\ args.end_date.parse = Parsed(0, 36000, TRUE, 540))
                    => w = <<"1", ".", "0">>

\* a start that lies on the local day after today, one hour before its end:
\* offset 1 and duration 1.0 were written
C15_Witness ==
    /\ ScriptBuilt /\ DatesParsed
    /\ ArgsOf("set theStartDate to theStartDate + (_ * days)") = {<<"1">>}
    /\ ArgsOf("set theEndDate to theStartDate + (_ * hours)") = {<<"1", ".", "0">>}

\* C16: a start text without offset is read as a UTC instant, a text with an
\* offset as an instant that offset away from UTC; the hour, minute and second
\* assigned to theStartDate are the fields of the local clock at that instant.
C16_LocalClockFields ==
    (ScriptBuilt /\ DatesParsed) =>
        \E hs \in ArgsOf("set hours of theStartDate to _"),
           ms \in ArgsOf("set minutes of theStartDate to _"),
           ss \in ArgsOf("set seconds of theStartDate to _") :
            LET h == py_int(hs).num
                m == py_int(ms).num
                s == py_int(ss).num
            IN  /\ ArgsOf("set hours of theStartDate to _") = {hs}
                /\ ArgsOf("set minutes of theStartDate to _") = {ms}
                /\ ArgsOf("set seconds of theStartDate to _") = {ss}
                /\ py_int(hs).ok /\ py_int(ms).ok /\ py_int(ss).ok
                /\ h \in 0..23 /\ m \in 0..59 /\ s \in 0..59
                /\ (h * 3600 + m * 60 + s - LocalSeconds(args.start_date)) % 86400 = 0

\* the start 23:30 without offset, in a zone nine hours ahead of UTC: 8 hours
\* and 30 minutes were assigned
C16_Witness ==
    /\ ScriptBuilt /\ DatesParsed
    /\ ~args.start_date.parse.aware /\ clock.local_off = 540
    /\ ArgsOf("set hours of theStartDate to _") = {<<"8">>}
    /\ ArgsOf("set minutes of theStartDate to _") = {<<"3", "0">>}

\* text part occurs in text
HasText(text, part) ==
    \E i \in 1..(Len(text) - Len(part) + 1) : SubSeq(text, i, i + Len(part) - 1) = part

LOCATION_KEY == <<"l", "o", "c", "a", "t", "i", "o", "n", ":">>

DESCRIPTION_KEY == <<"d", "e", "s", "c", "r", "i", "p", "t", "i", "o", "n", ":">>

SUMMARY_KEY == <<"s", "u", "m", "m", "a", "r", "y", ":">>

START_DATE_PROPERTY == 
    <<"s", "t", "a", "r", "t", " ", "d", "a", "t", "e", ":", "t", "h", "e", "S", "t",
      "a", "r", "t", "D", "a", "t", "e">>

END_DATE_PROPERTY == 
    <<"e", "n", "d", " ", "d", "a", "t", "e", ":", "t", "h", "e", "E", "n", "d", "D",
      "a", "t", "e">>

\* the property list always holds summary, start date and end date, and never
\* the null literal
RequiredProperties ==
    /\ HasText(script.properties, SUMMARY_KEY \o format_applescript_value(args.title))
    /\ HasText(script.properties, START_DATE_PROPERTY)
    /\ HasText(script.properties, END_DATE_PROPERTY)
    /\ ~HasText(script.properties, MISSING_VALUE)

\* C17 as stated: the property list holds summary, start date and end date;
\* it holds location: (description:) followed by the formatted value whenever
\* location (notes) is present, that is, not None; it holds no such property,
\* and never missing value, when the argument is None.
C17_WrittenIffPresent ==
    ScriptBuilt =>
        /\ RequiredProperties
        /\ IF args.location # VNone
           THEN HasText(script.properties,
                        LOCATION_KEY \o format_applescript_value(args.location))
           ELSE ~HasText(script.properties, LOCATION_KEY)
        /\ IF args.notes # VNone
           THEN HasText(script.properties,
                        DESCRIPTION_KEY \o format_applescript_value(args.notes))
           ELSE ~HasText(script.properties, DESCRIPTION_KEY)

\* C17, amended: the property list holds summary, start date and end date; it
\* holds location: (description:) followed by the formatted value when
\* location (notes) is a non-empty string, and holds no such property, and
\* never missing value, when the argument is None or the empty string.
C17_WrittenIffNonEmpty ==
    ScriptBuilt =>
        /\ RequiredProperties
        /\ IF args.location # VNone /\ args.location # VStr(<<>>)
           THEN HasText(script.properties,
                        LOCATION_KEY \o format_applescript_value(args.location))
           ELSE ~HasText(script.properties, LOCATION_KEY)
        /\ IF args.notes # VNone /\ args.notes # VStr(<<>>)
           THEN HasText(script.properties,
                        DESCRIPTION_KEY \o format_applescript_value(args.notes))
           ELSE ~HasText(script.properties, DESCRIPTION_KEY)

\* a script was built for a call with a location and without notes: its
\* property list holds the location and no description
C17_Witness ==
    /\ ScriptBuilt
    /\ args.location = VStr(<<"w">>) /\ args.notes = VNone
    /\ HasText(script.properties, LOCATION_KEY \o <<QUOTE, "w", QUOTE>>)
    /\ ~HasText(script.properties, DESCRIPTION_KEY)

\* the text is a decimal number, as str() of an int or a float writes it
IsNumberWritten(text) == py_int(text).ok \/ py_float(text).ok

\* C19: on every path of create_event, the path of unparseable dates included,
\* every caller-supplied string found in the script went through
\* format_applescript_value: the title, location and notes of the property
\* list, the calendar name, and the start_date and end_date texts of the date
\* setup (between the double quotes of their date literal stands what
\* format_applescript_value puts between its own); every other text
\* interpolated into the date setup is a number.
C19_EveryStringEscaped ==
    ScriptBuilt =>
        /\ HasText(script.properties, SUMMARY_KEY \o format_applescript_value(args.title))
        /\ truthy(args.location) =>
            HasText(script.properties,
                    LOCATION_KEY \o format_applescript_value(args.location))
        /\ truthy(args.notes) =>
            HasText(script.properties,
                    DESCRIPTION_KEY \o format_applescript_value(args.notes))
        /\ script.template = "named calendar" =>
            script.safe_cal_name = format_applescript_value(args.calendar_name)
        /\ \A i \in 1..Len(script.date_setup_script) :
            LET st == script.date_setup_script[i]
            IN  CASE st.stmt = "set theStartDate to date \"_\"" ->
                        <<QUOTE>> \o st.arg \o <<QUOTE>>
                            = format_applescript_value(VStr(args.start_date.text))
                  [] st.stmt = "set theEndDate to date \"_\"" ->
                        <<QUOTE>> \o st.arg \o <<QUOTE>>
                            = format_applescript_value(VStr(args.end_date.text))
                  [] OTHER -> st.arg = <<>> \/ IsNumberWritten(st.arg)

\* the phases of a call in their order: nothing built, script built, subprocess
\* launched, result returned (or exception raised)
PhaseRank(p) ==
    CASE p = "idle" -> 0
      [] p = "launching" -> 1
      [] p = "running" -> 2
      [] p \in {"done", "raised"} -> 3

\* C20: create_event is a single pass.  Every step of a call moves it to a
\* later phase, so no phase is entered twice; the subprocess is launched at
\* most once, only once the script is built and only while no exception was
\* caught and no result was made; the result is made when the launch has failed
\* or the subprocess has exited, and ends the call.
C20_SinglePass ==
    [][op' = "create" =>
        /\ PhaseRank(pc') > PhaseRank(pc)
        /\ proc.launched # "no" => proc'.launched = proc.launched
        /\ proc'.launched # proc.launched =>
            /\ script' # NoScript /\ script' = script
            /\ exc = NoException /\ result = NoResult
        /\ result' # result =>
            /\ pc' = "done"
            /\ proc'.launched = "failed" \/ proc'.exited]_vars

\* a call whose launch failed is over: the exception was caught, a failure was
\* returned and no subprocess ran
C20_Witness ==
    /\ op = "create" /\ pc = "done"
    /\ proc.launched = "failed" /\ ~proc.exited
    /\ result # NoResult /\ ~result.success

----------------------------------------------------------------------------
(* The event script of create_event as osascript runs it against the calendars
   of the Calendar application: the part of the two script templates of
   utils/calendar.py that finds the calendar of the new event *)

\* the exploration bound on the number of calendars
MaxCalendars == 2

\* AppleScript's "is equal to" on two strings: outside a "considering case"
\* block the comparison ignores letter case
is_equal_to(a, b) == lower(a) = lower(b)

\* The string that the AppleScript string literal text stands for, from
\* character i on: the text up to the closing quote, a backslash giving the
\* character after it.
RECURSIVE string_of_literal(_, _)
string_of_literal(text, i) ==
    IF i >= Len(text) THEN <<>>
    ELSE IF text[i] = BACKSLASH /\ i + 1 < Len(text)
         THEN <<text[i + 1]>> \o string_of_literal(text, i + 2)
    ELSE <<text[i]>> \o string_of_literal(text, i + 1)

\* "first calendar whose writable is true": its position, 0 when there is none
\* (the reference then raises an error)
first_writable(calendars) ==
    IF \E i \in 1..Len(calendars) : calendars[i].writable
    THEN CHOOSE i \in 1..Len(calendars) :
            /\ calendars[i].writable
            /\ \A j \in 1..(i - 1) : ~calendars[j].writable
    ELSE 0

\* the calendars the application may hold, each [name, writable]
CalendarLists ==
    SeqsUpTo([name : {<<"W", "o", "r", "k">>, <<"w", "o", "r", "k">>, <<"H", "o", "m", "e">>}, writable : BOOLEAN], MaxCalendars)

\* the create_event calls run against them: calendar_name None, empty, the name
\* of a calendar, and a name that differs from a calendar's in letter case only
ScriptArgs ==
    [title : {VStr(<<"a">>)},
     start_date : {d \in StartDates : d.parse.ok /\ d.parse.aware},
     end_date : {d \in EndDates : d.parse = Parsed(0, 36000, TRUE, 540)},
     location : {VNone}, notes : {VNone},
     calendar_name : {VNone, VStr(<<>>), VStr(<<"W", "o", "r", "k">>), VStr(<<"h", "o", "m", "e">>)}]

InitScript ==
    /\ MarshalOff /\ OthersOff
    /\ op = "none" /\ pc = "idle" /\ args = NoArgs /\ clock = NoClock
    /\ script = NoScript /\ proc = NoProc /\ exc = NoException /\ result = NoResult
    /\ cals \in CalendarLists
    /\ osa = NoRun

\* create_event builds its script and osascript starts on it
RunEventScript ==
    /\ pc = "idle" /\ osa.at = "off"
    /\ \E a \in ScriptArgs, now \in {c \in Clocks : c.today = 0} :
        /\ args' = a
        /\ clock' = now
        /\ script' = build_event_script(a, now)
        /\ osa' = [NoRun EXCEPT
                     !.at = IF truthy(a.calendar_name) THEN "repeat" ELSE "default",
                     !.c = 1]
    /\ op' = "create"
    /\ pc' = "running"
    /\ proc' = [proc EXCEPT !.launched = "ok"]
    /\ UNCHANGED <<exc, result, cals, mvars, ovars>>

\* one turn of "repeat with c in allCalendars", or its end
RepeatStep ==
    /\ osa.at = "repeat"
    /\ osa' =
        IF osa.c > Len(cals) THEN [osa EXCEPT !.at = "after repeat"]
        ELSE IF is_equal_to(cals[osa.c].name, string_of_literal(script.safe_cal_name, 2))
        THEN [osa EXCEPT !.foundCalendar = osa.c, !.compared = @ + 1,
                         !.at = "after repeat"]
        ELSE [osa EXCEPT !.c = @ + 1, !.compared = @ + 1]
    /\ UNCHANGED <<cvars, cals, mvars, ovars>>

\* "if foundCalendar is missing value then set foundCalendar to first calendar
\* whose writable is true", then "tell foundCalendar"
AfterRepeat ==
    /\ osa.at = "after repeat"
    /\ LET found == IF osa.foundCalendar = 0 THEN first_writable(cals)
                    ELSE osa.foundCalendar
       IN  osa' = [osa EXCEPT !.foundCalendar = found,
                              !.at = IF found = 0 THEN "on error" ELSE "tell"]
    /\ UNCHANGED <<cvars, cals, mvars, ovars>>

\* "set defaultCalendar to first calendar whose writable is true", then "tell
\* defaultCalendar"
DefaultCalendar ==
    /\ osa.at = "default"
    /\ osa' = [osa EXCEPT !.foundCalendar = first_writable(cals),
                          !.at = IF first_writable(cals) = 0 THEN "on error" ELSE "tell"]
    /\ UNCHANGED <<cvars, cals, mvars, ovars>>

NextScript ==
    \/ RunEventScript
    \/ RepeatStep
    \/ AfterRepeat
    \/ DefaultCalendar

SpecScript == InitScript /\ [][NextScript]_vars

----------------------------------------------------------------------------
(* Claims about the event script as it runs (checked under SpecScript) *)

\* the calendars whose name is exactly the requested one
ExactMatches == {i \in 1..Len(cals) : cals[i].name = args.calendar_name.s}

\* calendar i is the first writable one
IsFirstWritable(i) ==
    /\ i \in 1..Len(cals) /\ cals[i].writable
    /\ \A j \in 1..(i - 1) : ~cals[j].writable

\* C18: with a calendar_name the script goes through the calendars in order
\* and the event is made in the first one whose name is exactly the requested
\* name, in the first writable one only when no name matches; without a
\* calendar_name the event is made in the first writable calendar and no name
\* is compared.  The script fails only when no calendar can be found this way.
C18_TargetResolution ==
    /\ osa.at = "tell" =>
        IF args.calendar_name # VNone
        THEN IF ExactMatches # {}
             THEN /\ osa.foundCalendar \in ExactMatches
                  /\ \A i \in ExactMatches : osa.foundCalendar <= i
             ELSE IsFirstWritable(osa.foundCalendar)
        ELSE IsFirstWritable(osa.foundCalendar) /\ osa.compared = 0
    /\ osa.at = "on error" =>
        /\ \A i \in 1..Len(cals) : ~cals[i].writable
        /\ args.calendar_name # VNone => ExactMatches = {}

----------------------------------------------------------------------------
(* Further claims about create_event (checked under Spec) *)

\* the statements of the date setup, without the texts interpolated into them
StatementsWritten ==
    [i \in 1..Len(script.date_setup_script) |-> script.date_setup_script[i].stmt]

\* the start of the call lies on today's local date
StartsToday ==
    /\ clock.today * 86400 <= LocalSeconds(args.start_date)
    /\ LocalSeconds(args.start_date) < (clock.today + 1) * 86400

\* C21: for parseable dates the date setup reads, in this order: theStartDate
\* is set to the current date; whole days are added to it (this statement only
\* when the start is not on today's local date); its hours, its minutes and its
\* seconds are set; theEndDate is set to theStartDate plus a number of hours.
\* Nothing else is written: no clock field of theEndDate is assigned.
C21_DateSetupOrder ==
    (ScriptBuilt /\ DatesParsed) =>
        StatementsWritten =
            <<"set theStartDate to (current date)">>
            \o (IF StartsToday THEN <<>>
                ELSE <<"set theStartDate to theStartDate + (_ * days)">>)
            \o <<"set hours of theStartDate to _",
                 "set minutes of theStartDate to _",
                 "set seconds of theStartDate to _",
                 "set theEndDate to theStartDate + (_ * hours)">>

\* a date setup was written for a start on today's local date: five statements,
\* none adding days
C21_Witness ==
    /\ ScriptBuilt /\ DatesParsed /\ StartsToday
    /\ Len(script.date_setup_script) = 5
    /\ script.date_setup_script[5].stmt = "set theEndDate to theStartDate + (_ * hours)"

----------------------------------------------------------------------------
(* Two create_event calls on one CalendarModule, interleaved at their awaits.
   CalendarModule has no attribute; a call lives in its local variables:
   [pc, args, clock, script, argv, proc, result], argv being the script its
   subprocess was started with. *)

Callers == {1, 2}

\* what the two calls may be given, and what their subprocesses may do
Concurrent ==
    [args : {a \in Args : /\ a.start_date.parse.ok /\ a.start_date.parse.aware
                          /\ a.end_date.parse = Parsed(0, 36000, TRUE, 540)
                          /\ a.location = VNone /\ a.notes = VNone
                          /\ a.calendar_name # VStr(<<>>)},
     clock : {c \in Clocks : c.today = 0 /\ c.local_off = 540},
     exit : [returncode : {0}, decodable : {TRUE}, stderr : {<<>>},
             stdout : BasicStdouts]
            \cup [returncode : {1}, decodable : {TRUE}, stdout : {<<>>},
                  stderr : BasicStderrs]]

InitConcurrent ==
    /\ MarshalOff /\ CalendarOff
    /\ calls = [i \in Callers |->
                  [pc |-> "idle", args |-> NoArgs, clock |-> NoClock, script |-> NoScript,
                   argv |-> NoScript, proc |-> NoProc, result |-> NoResult]]
    /\ files = <<>> /\ slack = <<>> /\ jira = <<>>

\* faulty variant: the script is kept where every call finds the first call's
script_of_first_call(c, i) == c[1].script

\* the local variable script of call i, handed to run_applescript_async
script_of(c, i) == c[i].script

\* call i starts: create_event builds its script and awaits the launch
ConcurrentCreateEvent(i) ==
    /\ calls[i].pc = "idle"
    /\ \E x \in Concurrent :
        calls' = [calls EXCEPT ![i].pc = "launching", ![i].args = x.args,
                               ![i].clock = x.clock,
                               ![i].script = build_event_script(x.args, x.clock)]
    /\ UNCHANGED <<mvars, cvars, svars, files, slack, jira>>

\* create_subprocess_exec of call i returns, or raises
ConcurrentLaunch(i) ==
    /\ calls[i].pc = "launching"
    /\ \/ calls' = [calls EXCEPT ![i].pc = "running",
                                 ![i].argv = script_of(calls, i),
                                 ![i].proc.launched = "ok"]
       \/ \E e \in OsErrors :
            calls' = [calls EXCEPT
                ![i].pc = "done",
                ![i].proc.launched = "failed",
                ![i].result = create_event_finish(run_applescript_async(
                    [cls |-> "FileNotFoundError", msg |-> e], <<>>)).result]
    /\ UNCHANGED <<mvars, cvars, svars, files, slack, jira>>

\* the subprocess of call i exits and the call classifies its reply
ConcurrentExit(i) ==
    /\ calls[i].pc = "running"
    /\ \E x \in Concurrent :
        LET p == [calls[i].proc EXCEPT !.exited = TRUE, !.returncode = x.exit.returncode,
                                       !.stdout = x.exit.stdout, !.stderr = x.exit.stderr,
                                       !.decodable = x.exit.decodable]
            body == after_communicate(p)
        IN  calls' = [calls EXCEPT
                ![i].pc = "done",
                ![i].proc = p,
                ![i].result = create_event_finish(
                    run_applescript_async(body.exc, body.output)).result]
    /\ UNCHANGED <<mvars, cvars, svars, files, slack, jira>>

NextConcurrent ==
    \E i \in Callers :
        \/ ConcurrentCreateEvent(i)
        \/ ConcurrentLaunch(i)
        \/ ConcurrentExit(i)

SpecConcurrent == InitConcurrent /\ [][NextConcurrent]_vars

\* C22: under every interleaving of two concurrent calls, the script of each
\* call is the one built from its own arguments, the subprocess of each call
\* was started with that script, and the result of each call is classified
\* from what its own subprocess printed: success exactly when that reply begins
\* with "SUCCESS:", the message being that reply without the sentinels, or, on
\* a non-zero exit, the error text of its own subprocess.
C22_NoSharedState ==
    \A i \in Callers :
        LET c == calls[i]
            reply == strip(c.proc.stdout)
        IN  /\ c.pc # "idle" => c.script = build_event_script(c.args, c.clock)
            /\ c.proc.launched = "ok" =>
                c.argv = build_event_script(c.args, c.clock)
            /\ (c.pc = "done" /\ c.proc.exited /\ c.proc.returncode = 0) =>
                /\ c.result.success <=> BeginsWith(reply, SUCCESS_SENTINEL)
                /\ HasText(reply, c.result.message)
            /\ (c.pc = "done" /\ c.proc.exited /\ c.proc.returncode # 0) =>
                /\ ~c.result.success
                /\ HasText(c.result.message, strip(c.proc.stderr))

\* the second call is over with a success while the first, made with other
\* arguments, still waits for its subprocess
C22_Witness ==
    /\ calls[1].pc = "running" /\ calls[2].pc = "done"
    /\ calls[1].args # calls[2].args
    /\ calls[1].argv # calls[2].argv
    /\ calls[2].result.success

\* C23: create_event has no timeout and no cancellation.  A call that has
\* returned has no subprocess still running (its launch failed or its
\* subprocess has exited), and, the subprocess eventually exiting, every call
\* made eventually returns a result.
C23_ReturnsAfterExit ==
    /\ [](op = "create" /\ pc = "done" => proc.launched = "failed" \/ proc.exited)
    /\ (op = "create" /\ pc # "idle") ~> (pc = "done" /\ result # NoResult)

\* a call has returned the result of a subprocess that had exited
C23_Witness ==
    /\ op = "create" /\ pc = "done" /\ result.kind = "event"
    /\ proc.launched = "ok" /\ proc.exited

\* the call's end date names an instant before its start date
EndBeforeStart ==
    DatesParsed /\ UtcSeconds(args.end_date) < UtcSeconds(args.start_date)

\* C24: an end date earlier than the start date is not validated.  The script
\* is built as for any request, with the (negative) difference in hours
\* written as the duration, and it is submitted: the call never ends without
\* a launch of osascript, and nothing is raised.
C24_EndBeforeStartSubmitted ==
    (ScriptBuilt /\ EndBeforeStart) =>
        /\ script.template = build_event_script(args, clock).template
        /\ script.template # "none"
        /\ \E w \in ArgsOf("set theEndDate to theStartDate + (_ * hours)") :
            /\ ArgsOf("set theEndDate to theStartDate + (_ * hours)") = {w}
            /\ w[1] = "-"
            /\ py_float(w).ok
            /\ py_float(w).num < 0
            /\ py_float(w).num * 3600
                = (UtcSeconds(args.end_date) - UtcSeconds(args.start_date))
                  * pow10(py_float(w).scale)
        /\ pc \in {"launching", "running", "done"}
        /\ pc = "done" => proc.launched \in {"ok", "failed"}
        /\ exc = NoException

\* a request ending before its start was run by osascript, which exited with
\* status 0, and the call reported success
C24_Witness ==
    /\ ScriptBuilt /\ EndBeforeStart
    /\ pc = "done" /\ proc.launched = "ok" /\ proc.exited /\ proc.returncode = 0
    /\ result.success
    /\ ArgsOf("set theEndDate to theStartDate + (_ * hours)") = {<<"-", "1", ".", "5">>}

\* v is a Python value of the kinds the parsers return: None, bool, int,
\* float, str, a list of str, or a dict of text keys to such values
IsParsed(v) ==
    \/ v.t \in {"none", "bool", "int", "float"}
    \/ v.t = "str" /\ IsText(v.s)
    \/ v.t = "list" /\ \A i \in 1..Len(v.xs) : v.xs[i].t = "str" /\ IsText(v.xs[i].s)

\* C25: the three parsers are total.  Applied to any text, malformed ones
\* included, each parser returns a value, never an exception: a lone '.', '1.2.3', an unbalanced quote or brace and '' come
\* back from parse_value as the stripped text itself, and
\* parse_applescript_list returns [] for '', whitespace-only text and '{}'.
C25_ParsersTotal ==
    /\ mpc = "parsed_value" =>
        /\ IsParsed(mout)
        /\ (strip(mtext) \in {<<>>, <<".">>, <<"1", ".", "2", ".", "3">>, <<QUOTE, "a">>,
                              <<"{", "a">>, <<"}">>, <<"{", QUOTE, "a", ",">>})
            => mout = VStr(strip(mtext))
    /\ mpc = "parsed_list" =>
        /\ IsParsed(mout) /\ mout.t = "list"
        /\ strip(mtext) \in {<<>>, <<"{", "}">>} => mout = VList(<<>>)
    /\ mpc = "parsed_record" =>
        /\ mout.t = "dict"
        /\ \A i \in 1..Len(mout.kv) : IsText(mout.kv[i].k) /\ IsParsed(mout.kv[i].v)
        /\ mtext = <<>> => mout = VDict(<<>>)

\* parse_value was given '1.2.3', which float() rejects, and returned it as text
C25_Witness ==
    /\ mpc = "parsed_value"
    /\ mtext = <<"1", ".", "2", ".", "3">>
    /\ mout = VStr(<<"1", ".", "2", ".", "3">>)

----------------------------------------------------------------------------
(* utils/applescript.py: run_applescript and run_applescript_async called
   directly.  op is the function called; exc is the exception the call raises,
   result the text it returns. *)

\* str() of the CalledProcessError that subprocess.run(check=True) raises
CALLED_PROCESS_ERROR_TEXT == 
    <<"C", "o", "m", "m", "a", "n", "d", " ", "'", "[", "'", "o", "s", "a", "s", "c",
      "r", "i", "p", "t", "'", ",", " ", "'", "-", "e", "'", ",", " ", ".", ".", ".",
      "]", "'", " ", "r", "e", "t", "u", "r", "n", "e", "d", " ", "n", "o", "n", "-",
      "z", "e", "r", "o", " ", "e", "x", "i", "t", " ", "s", "t", "a", "t", "u", "s",
      " ", "1", ".">>

\* What run_applescript gives its caller: [exc, output].  oserror is the
\* exception subprocess.run raised on starting osascript (NoException when
\* it started), p the process it ran.  Only CalledProcessError is caught.
run_applescript(oserror, p) ==
    IF oserror # NoException THEN [exc |-> oserror, output |-> <<>>]
    ELSE IF ~p.decodable
    THEN [exc |-> decode(p.stdout, FALSE).exc, output |-> <<>>]
    ELSE IF p.returncode # 0
    THEN [exc |-> [cls |-> "AppleScriptError",
                   msg |-> APPLESCRIPT_ERROR_PREFIX
                           \o (IF p.stderr # <<>> THEN strip(p.stderr)
                               ELSE CALLED_PROCESS_ERROR_TEXT)],
          output |-> <<>>]
    ELSE [exc |-> NoException, output |-> strip(p.stdout)]

\* one of the two functions is called with a script
CallRunApplescript ==
    /\ pc = "idle"
    /\ op' \in {"run_applescript", "run_applescript_async"}
    /\ pc' = "launching"
    /\ UNCHANGED <<args, clock, script, proc, exc, result, mvars, svars, ovars>>

\* the function returns r.output or raises r.exc
Returns(r) ==
    /\ exc' = r.exc
    /\ result' = IF r.exc = NoException THEN [kind |-> "output", output |-> r.output]
                 ELSE NoResult
    /\ pc' = IF r.exc = NoException THEN "done" ELSE "raised"

\* osascript cannot be started: subprocess.run, or create_subprocess_exec, raises
RunLaunchFails ==
    /\ pc = "launching"
    /\ \E e \in OsErrors :
        LET oserror == [cls |-> "FileNotFoundError", msg |-> e]
        IN  /\ proc' = [proc EXCEPT !.launched = "failed", !.oserror = e]
            /\ Returns(IF op = "run_applescript"
                       THEN run_applescript(oserror, proc)
                       ELSE run_applescript_async(oserror, <<>>))
    /\ UNCHANGED <<op, args, clock, script, mvars, svars, ovars>>

\* osascript starts
RunLaunchSucceeds ==
    /\ pc = "launching"
    /\ proc' = [proc EXCEPT !.launched = "ok"]
    /\ pc' = "running"
    /\ UNCHANGED <<op, args, clock, script, exc, result, mvars, svars, ovars>>

\* osascript exits
RunProcessExits ==
    /\ pc = "running"
    /\ \E x \in Exits("check", NoArgs) :
        LET p == [proc EXCEPT !.exited = TRUE, !.returncode = x.returncode,
                              !.stdout = x.stdout, !.stderr = x.stderr,
                              !.decodable = x.decodable]
            body == after_communicate(p)
        IN  /\ proc' = p
            /\ Returns(IF op = "run_applescript"
                       THEN run_applescript(NoException, p)
                       ELSE run_applescript_async(body.exc, body.output))
    /\ UNCHANGED <<op, args, clock, script, mvars, svars, ovars>>

NextRun ==
    \/ CallRunApplescript
    \/ RunLaunchFails
    \/ RunLaunchSucceeds
    \/ RunProcessExits

SpecRun == Init /\ [][NextRun]_vars

\* the external command of the call has failed: osascript did not start, or it
\* exited with a non-zero status
CommandFailed ==
    /\ op \in {"run_applescript", "run_applescript_async"}
    /\ pc \in {"done", "raised"}
    /\ proc.launched = "failed" \/ (proc.exited /\ proc.returncode # 0)

\* C26: run_applescript and run_applescript_async report every failure of the
\* external command, a non-zero exit as well as a failure to start osascript,
\* by raising AppleScriptError and no other exception type.
C26_FailuresRaiseAppleScriptError ==
    CommandFailed => pc = "raised" /\ exc.cls = "AppleScriptError"

\* the part of C26 that the code keeps: run_applescript_async raises
\* AppleScriptError for every failure of the command, and run_applescript for a
\* non-zero exit whose output could be decoded
C26_AsyncAndNonZeroExit ==
    (CommandFailed /\ (op = "run_applescript_async" \/ (proc.exited /\ proc.decodable)))
        => pc = "raised" /\ exc.cls = "AppleScriptError"

\* the arguments a with every empty-string optional argument replaced by None
EmptyAsNone(a) ==
    [a EXCEPT !.location = IF @ = VStr(<<>>) THEN VNone ELSE @,
              !.notes = IF @ = VStr(<<>>) THEN VNone ELSE @,
              !.calendar_name = IF @ = VStr(<<>>) THEN VNone ELSE @]

\* C27: an empty-string optional argument is treated exactly like an absent
\* one.  The script of a call is the script of the same call with every ''
\* among location, notes and calendar_name replaced by None: location = ''
\* writes no location property, notes = '' no description property, and
\* calendar_name = '' takes the default first-writable-calendar branch.
C27_EmptyLikeAbsent ==
    ScriptBuilt =>
        /\ script = build_event_script(EmptyAsNone(args), clock)
        /\ args.location = VStr(<<>>) => ~HasText(script.properties, LOCATION_KEY)
        /\ args.notes = VStr(<<>>) => ~HasText(script.properties, DESCRIPTION_KEY)
        /\ args.calendar_name = VStr(<<>>) =>
            script.template = "default calendar" /\ script.safe_cal_name = <<>>

\* a call with all three optional arguments '' has built its script
C27_Witness ==
    /\ ScriptBuilt
    /\ args.location = VStr(<<>>) /\ args.notes = VStr(<<>>)
    /\ args.calendar_name = VStr(<<>>)
    /\ script.template = "default calendar"

----------------------------------------------------------------------------
(* file_system.py: FileSystemManager.  A path is the sequence of its
   component names below the root; files.fs maps every existing path to "dir"
   or to the text of the file; files.before is the tree before the last call;
   files.last is the last call: [op, full, exc, touched], the resolved path, the
   exception it raised and the paths it read or wrote.  No symbolic links. *)

PARENT == <<".", ".">>

\* self.base_path, resolved: /b
BASE_PATH == <<<<"b">>>>

\* the tree when the manager has been constructed: the base directory with a
\* file and a directory, and beside it /bx with a file and /c
InitialTree ==
    [p \in {<<>>, <<<<"b">>>>, <<<<"b">>, <<"f">>>>, <<<<"b">>, <<"d">>>>,
             <<<<"b", "x">>>>, <<<<"b", "x">>, <<"f">>>>, <<<<"c">>>>} |->
        IF p = <<<<"b">>, <<"f">>>> THEN "x"
        ELSE IF p = <<<<"b", "x">>, <<"f">>>> THEN "s"
        ELSE "dir"]

\* the path arguments tried: [abs, parts], parts the components of the text
RequestPaths ==
    [abs : {FALSE},
     parts : {<<>>, <<<<"f">>>>, <<<<"d">>>>, <<<<"d">>, <<"f">>>>, <<<<"n">>, <<"f">>>>,
              <<<<"d">>, PARENT, <<"f">>>>, <<PARENT>>, <<PARENT, <<"b">>, <<"f">>>>,
              <<PARENT, <<"b", "x">>>>, <<PARENT, <<"b", "x">>, <<"f">>>>,
              <<PARENT, <<"b", "x">>, <<"g">>>>, <<PARENT, <<"c">>, <<"f">>>>}]
    \cup [abs : {TRUE}, parts : {<<<<"c">>, <<"f">>>>, <<<<"b">>, <<"d">>>>}]

Contents == {"x", "y"}

\* str(path) of an absolute path
path_str(p) ==
    IF p = <<>> THEN <<"/">> ELSE concat([i \in 1..Len(p) |-> <<"/">> \o p[i]])

\* Path.resolve() of an absolute path without symbolic links: ".." steps to the
\* parent, and the parent of the root is the root
RECURSIVE resolve(_, _)
resolve(done, parts) ==
    IF parts = <<>> THEN done
    ELSE IF Head(parts) = PARENT
    THEN resolve(IF done = <<>> THEN <<>> ELSE SubSeq(done, 1, Len(done) - 1), Tail(parts))
    ELSE resolve(Append(done, Head(parts)), Tail(parts))

\* (self.base_path / path).resolve(): an absolute path replaces the base
full_path(path) ==
    resolve(<<>>, IF path.abs THEN path.parts ELSE BASE_PATH \o path.parts)

NoCall == [op |-> "none", full |-> <<>>, exc |-> "none", touched |-> {}]

\* _validate_path: TRUE when it returns full_path(path), FALSE when it raises
\* ValueError("Invalid path: Access denied")
validate_path(path) == startswith(path_str(full_path(path)), path_str(BASE_PATH))

is_dir(fs, p) == p \in DOMAIN fs /\ fs[p] = "dir"

is_file(fs, p) == p \in DOMAIN fs /\ fs[p] # "dir"

parent(p) == SubSeq(p, 1, Len(p) - 1)

InitFiles ==
    /\ MarshalOff /\ CalendarOff /\ calls = <<>> /\ slack = <<>> /\ jira = <<>>
    /\ files = [fs |-> InitialTree, before |-> InitialTree, last |-> NoCall]

\* the call ends: tree fs, and what the call did
Called(fs, op_, p, e, touched) ==
    files' = [fs |-> fs, before |-> files.fs,
              last |-> [op |-> op_, full |-> p, exc |-> e, touched |-> touched]]

\* write_file(path, content)
WriteFile ==
    /\ files # <<>>
    /\ \E path \in RequestPaths, content \in Contents :
        LET p == full_path(path)
        IN  IF ~validate_path(path) THEN Called(files.fs, "write", p, "ValueError", {})
            ELSE IF is_dir(files.fs, p)
            THEN Called(files.fs, "write", p, "IsADirectoryError", {})
            ELSE IF p = <<>> \/ ~is_dir(files.fs, parent(p))
            THEN Called(files.fs, "write", p, "FileNotFoundError", {})
            ELSE Called([q \in DOMAIN files.fs \cup {p} |->
                            IF q = p THEN content ELSE files.fs[q]],
                        "write", p, "none", {p})
    /\ UNCHANGED <<mvars, cvars, svars, calls, slack, jira>>

\* read_file(path)
ReadFile ==
    /\ files # <<>>
    /\ \E path \in RequestPaths :
        LET p == full_path(path)
        IN  IF ~validate_path(path) THEN Called(files.fs, "read", p, "ValueError", {})
            ELSE IF ~is_file(files.fs, p)
            THEN Called(files.fs, "read", p, "FileNotFoundError", {})
            ELSE Called(files.fs, "read", p, "none", {p})
    /\ UNCHANGED <<mvars, cvars, svars, calls, slack, jira>>

\* list_directory(path): iterdir() reads the directory, and relative_to
\* raises ValueError for an item that is not below base_path
ListDirectory ==
    /\ files # <<>>
    /\ \E path \in RequestPaths :
        LET p == full_path(path)
            items == {q \in DOMAIN files.fs : q # <<>> /\ parent(q) = p}
        IN  IF ~validate_path(path) THEN Called(files.fs, "list", p, "ValueError", {})
            ELSE IF ~is_dir(files.fs, p)
            THEN Called(files.fs, "list", p, "NotADirectoryError", {})
            ELSE IF \E q \in items : SubSeq(q, 1, Len(BASE_PATH)) # BASE_PATH
            THEN Called(files.fs, "list", p, "ValueError: not in the subpath", {p})
            ELSE Called(files.fs, "list", p, "none", {p})
    /\ UNCHANGED <<mvars, cvars, svars, calls, slack, jira>>

NextFiles ==
    \/ WriteFile
    \/ ReadFile
    \/ ListDirectory

SpecFiles == InitFiles /\ [][NextFiles]_vars

\* p is base_path itself or lies inside the base_path directory tree
Inside(p) == Len(p) >= Len(BASE_PATH) /\ SubSeq(p, 1, Len(BASE_PATH)) = BASE_PATH

\* C28: _validate_path returns a path only if the resolved path is base_path
\* or lies inside its tree and raises ValueError for every other path, a
\* sibling directory whose name starts with base_path's name included;
\* read_file, write_file and list_directory never read or write outside
\* base_path; a rejected write_file leaves the filesystem unchanged.
C28_PathConfinement ==
    (files # <<>> /\ files.last.op # "none") =>
        /\ files.last.exc = "ValueError" <=> ~Inside(files.last.full)
        /\ \A p \in files.last.touched : Inside(p)
        /\ \A p \in DOMAIN files.fs :
            ~Inside(p) => p \in DOMAIN InitialTree /\ files.fs[p] = InitialTree[p]
        /\ (files.last.op = "write" /\ files.last.exc = "ValueError")
            => files.fs = files.before

\* C28 with the sibling directories left out: for a resolved path whose text
\* does not start with the text of base_path the call is rejected with
\* ValueError and changes nothing, and a path that lies inside base_path is
\* never rejected
C28_RejectsOtherPrefixes ==
    (files # <<>> /\ files.last.op # "none") =>
        /\ ~startswith(path_str(files.last.full), path_str(BASE_PATH))
            => /\ files.last.exc = "ValueError"
               /\ files.last.touched = {}
               /\ files.fs = files.before
        /\ Inside(files.last.full) => files.last.exc # "ValueError"

----------------------------------------------------------------------------
(* slack_obsidian_main.py: get_message_replies.  The thread is the parent
   message 0 followed by the replies 1..n; conversations_replies serves it in
   pages.  slack is [pages, fails, cursor, replies, pc]: the pages, the request
   that raises SlackApiError (0: none), the position in the pages (0: cursor is
   None), the local list replies, and where the call stands. *)

MaxReplies == 4

\* the thread with n replies
Thread(n) == [i \in 1..(n + 1) |-> i - 1]

\* every way to cut a non-empty sequence s into consecutive non-empty pages
RECURSIVE Splits(_)
Splits(s) ==
    {<<s>>} \cup UNION {{<<SubSeq(s, 1, k)>> \o rest : rest \in Splits(SubSeq(s, k + 1, Len(s)))} :
                          k \in 1..(Len(s) - 1)}

\* get_message_replies is called: replies = [], cursor = None
InitSlack ==
    /\ MarshalOff /\ CalendarOff /\ calls = <<>> /\ files = <<>> /\ jira = <<>>
    /\ \E n \in 0..MaxReplies :
        \E pages \in Splits(Thread(n)), fails \in 0..(n + 1) :
            slack = [pages |-> pages, fails |-> fails, cursor |-> 0, replies |-> <<>>,
                     pc |-> "loop"]

\* replies after the page's messages have been added
extend(replies, cursor, messages) ==
    IF Len(replies) = 0 /\ Len(messages) > 0 THEN replies \o Tail(messages)
    ELSE replies \o messages

\* one pass of the loop in which conversations_replies answers: the page is
\* added, and the loop goes on to the next cursor or the call returns
FetchPage ==
    /\ slack # <<>> /\ slack.pc = "loop"
    /\ slack.fails # slack.cursor + 1
    /\ LET messages == slack.pages[slack.cursor + 1]
           has_more == slack.cursor + 1 < Len(slack.pages)
       IN  slack' = [slack EXCEPT
                        !.replies = extend(slack.replies, slack.cursor, messages),
                        !.cursor = IF has_more THEN slack.cursor + 1 ELSE @,
                        !.pc = IF has_more THEN "loop" ELSE "returned"]
    /\ UNCHANGED <<mvars, cvars, svars, calls, files, jira>>

\* one pass in which conversations_replies raises SlackApiError: the call
\* returns the replies gathered so far
FetchFails ==
    /\ slack # <<>> /\ slack.pc = "loop"
    /\ slack.fails = slack.cursor + 1
    /\ slack' = [slack EXCEPT !.pc = "returned"]
    /\ UNCHANGED <<mvars, cvars, svars, calls, files, jira>>

NextSlack ==
    \/ FetchPage
    \/ FetchFails

SpecSlack == InitSlack /\ [][NextSlack]_vars

\* the messages of the pages before request k, in order, the parent left out
RepliesBefore(k) ==
    LET all == concat([i \in 1..(k - 1) |-> slack.pages[i]])
    IN  IF all = <<>> THEN <<>> ELSE Tail(all)

\* C29: get_message_replies returns every message of the thread in all pages
\* but the parent, however the thread is split into pages, a first page that
\* holds only the parent included; after a SlackApiError it returns the
\* replies of the pages fetched before it.
C29_AllRepliesButParent ==
    (slack # <<>> /\ slack.pc = "returned") =>
        slack.replies = RepliesBefore(IF slack.fails \in 1..Len(slack.pages)
                                      THEN slack.fails
                                      ELSE Len(slack.pages) + 1)

\* C29 for the threads whose first page holds a reply besides the parent, or
\* that failed on the first request
C29_FirstPageWithReply ==
    (slack # <<>> /\ slack.pc = "returned"
        /\ (Len(slack.pages[1]) >= 2 \/ slack.fails = 1 \/ Len(slack.pages) = 1)) =>
        slack.replies = RepliesBefore(IF slack.fails \in 1..Len(slack.pages)
                                      THEN slack.fails
                                      ELSE Len(slack.pages) + 1)

----------------------------------------------------------------------------
(* jira_obsidian_main.py: main(), run again and again.  Times are seconds.
   jira is [now, file, runs, run, prev]: the clock at the last run, the content
   of the last-check file (NO_FILE: it does not exist), the number of runs made,
   and the last run and the one before it, each [outcome, stored, time_limit,
   log]: how the run ended, the file content it started from, the time limit
   it queried from and the things it wrote, in order. *)

MaxRuns == 2

NO_FILE == -1

DAYS == 7

\* the time between two runs: half a minute, a day, eight days
Elapsed == {30, SECONDS_PER_DAY, 8 * SECONDS_PER_DAY}

\* strptime(t.strftime("%Y-%m-%d %H:%M")): the seconds are dropped
to_the_minute(t) == (t \div SECONDS_PER_MINUTE) * SECONDS_PER_MINUTE

\* get_last_check_time: the file's content, or 24 hours ago
get_last_check_time(file, now) ==
    IF file # NO_FILE THEN file ELSE to_the_minute(now - SECONDS_PER_DAY)

\* time_limit of get_my_notifications: the older of last_check_time and
\* days ago
time_limit(last_check_time, now) ==
    LET days_ago == to_the_minute(now - DAYS * SECONDS_PER_DAY)
    IN  IF days_ago < last_check_time THEN days_ago ELSE last_check_time

\* what a run without failure writes, in order; has_issues: the searches
\* returned an issue
STEPS(has_issues) ==
    (IF has_issues THEN <<"issue files", "daily notes", "weekly notes", "monthly notes">>
     ELSE <<>>)
    \o <<"index", "last check">>

NoRunYet == [outcome |-> "none", stored |-> NO_FILE, time_limit |-> 0, log |-> <<>>]

InitJira ==
    /\ MarshalOff /\ CalendarOff /\ calls = <<>> /\ files = <<>> /\ slack = <<>>
    /\ \E stored \in {NO_FILE, 2 * SECONDS_PER_DAY, 9 * SECONDS_PER_DAY + 43200} :
        jira = [now |-> 10 * SECONDS_PER_DAY + 45, file |-> stored, runs |-> 0,
                run |-> NoRunYet, prev |-> NoRunYet]

\* faulty variant: the last-check time is saved before the notes are written
main_saves_first(file, now, connected, has_issues, done) ==
    IF ~connected
    THEN [outcome |-> "no connection", stored |-> file, time_limit |-> 0, log |-> <<>>]
    ELSE [outcome |-> IF done = Len(STEPS(has_issues)) THEN "completed" ELSE "raised",
          stored |-> file,
          time_limit |-> time_limit(get_last_check_time(file, now), now),
          log |-> <<"last check">> \o SubSeq(STEPS(has_issues), 1, done)]

\* main() at time now with the file as stored: connected is what
\* connect_to_jira achieved, done the number of steps made before one raised
main(file, now, connected, has_issues, done) ==
    IF ~connected
    THEN [outcome |-> "no connection", stored |-> file, time_limit |-> 0, log |-> <<>>]
    ELSE [outcome |-> IF done = Len(STEPS(has_issues)) THEN "completed" ELSE "raised",
          stored |-> file,
          time_limit |-> time_limit(get_last_check_time(file, now), now),
          log |-> SubSeq(STEPS(has_issues), 1, done)]

\* the state after a run r made at time now
Ran(r, now) ==
    jira' = [now |-> now,
             file |-> IF \E i \in 1..Len(r.log) : r.log[i] = "last check"
                      THEN to_the_minute(now) ELSE jira.file,
             runs |-> jira.runs + 1, run |-> r, prev |-> jira.run]

\* a run in which connect_to_jira returns None
RunNoConnection ==
    /\ jira # <<>> /\ jira.runs < MaxRuns
    /\ \E e \in Elapsed :
        Ran(main(jira.file, jira.now + e, FALSE, FALSE, 0), jira.now + e)
    /\ UNCHANGED <<mvars, cvars, svars, calls, files, slack>>

\* a run in which a step raises: a file cannot be written
RunRaises ==
    /\ jira # <<>> /\ jira.runs < MaxRuns
    /\ \E e \in Elapsed, has_issues \in BOOLEAN :
        \E done \in 0..(Len(STEPS(has_issues)) - 1) :
            Ran(main(jira.file, jira.now + e, TRUE, has_issues, done), jira.now + e)
    /\ UNCHANGED <<mvars, cvars, svars, calls, files, slack>>

\* a run that reaches the end of main(); a failed search leaves no issue
RunCompletes ==
    /\ jira # <<>> /\ jira.runs < MaxRuns
    /\ \E e \in Elapsed, has_issues \in BOOLEAN :
        Ran(main(jira.file, jira.now + e, TRUE, has_issues, Len(STEPS(has_issues))),
            jira.now + e)
    /\ UNCHANGED <<mvars, cvars, svars, calls, files, slack>>

NextJira ==
    \/ RunNoConnection
    \/ RunRaises
    \/ RunCompletes

SpecJira == InitJira /\ [][NextJira]_vars

\* the run r did not reach its end
Failed(r) == r.outcome \in {"no connection", "raised"}

\* C30: the last-check file is written only as the final step of a run, after
\* the issue files, the daily, weekly and monthly notes and the index the run
\* writes; a run that fails to connect, or in which an earlier step raises,
\* leaves the stored time unchanged, so the run after it queries from the
\* stored time or from an earlier time limit (the time the failed run would
\* have stored is later than either).
C30_SavedLastOnly ==
    (jira # <<>> /\ jira.run.outcome # "none") =>
        LET r == jira.run
            n == Len(r.log)
        IN  /\ \A i \in 1..n : r.log[i] = "last check" =>
                /\ i = n /\ r.outcome = "completed"
                /\ \E has_issues \in BOOLEAN : r.log = STEPS(has_issues)
            /\ jira.file # r.stored =>
                r.outcome = "completed" /\ jira.file = to_the_minute(jira.now)
            /\ Failed(r) => jira.file = r.stored
            /\ (Failed(jira.prev) /\ r.outcome # "no connection") =>
                /\ r.stored = jira.prev.stored
                /\ r.stored # NO_FILE => r.time_limit <= r.stored
                /\ r.stored = NO_FILE =>
                    r.time_limit <= to_the_minute(jira.now - SECONDS_PER_DAY)

\* a run in which writing the index raised left the stored time as it was, and
\* the run after it queried from seven days back, before the stored time, and
\* was the one to store a new time, as its last step
C30_Witness ==
    /\ jira # <<>> /\ jira.prev.outcome = "raised"
    /\ jira.prev.log = <<"issue files", "daily notes", "weekly notes", "monthly notes">>
    /\ jira.run.outcome = "completed"
    /\ jira.run.log = STEPS(TRUE)
    /\ jira.run.stored = jira.prev.stored
    /\ jira.run.stored # NO_FILE
    /\ jira.run.time_limit < jira.run.stored
    /\ jira.file # jira.run.stored

====
